---- MODULE Spec2Model ----
(***************************************************************************)
(* A model of the YewPar tree-search skeletons: the Random skeleton        *)
(* (skeletons/BasicRandom.hpp) driven by a scheduler over depth pools, and  *)
(* the Indexed branch-and-bound skeleton (skeletons/bnb/indexed.hpp), the   *)
(* PriorityOrdered work-stealing policy over its global queue, and the     *)
(* max-clique application's generator GenNode.                              *)
(* Tree nodes are paths of child indexes from the root; generators hand    *)
(* out children in index order.                                            *)
(***************************************************************************)
EXTENDS Integers, Sequences, FiniteSets, TLC

\* ------------------------------------------------------------------------
\* Bounds of the model
\* ------------------------------------------------------------------------

\* worker threads of the schedulers, spread round-robin over the localities
NumWorkers == 2

\* localities of the cluster
NumLocalities == 2

\* objectives of nodes range over 0..MaxObj
MaxObj == 1

\* params.maxDepth ranges over 0..MaxMaxDepth
MaxMaxDepth == 3

\* capacity of a task's GeneratorStack (the MaxStackDepth template argument)
maxStackDepth == 4

\* 1073741824, the numerator of the spawn threshold in Random::expand
RandScale == 1073741824

\* The modulus of the model's unsigned arithmetic.  TLC's integers are 32-bit
\* signed, so 2^32 cannot be written; values are reduced modulo 2^30 instead:
\* a value in range is unchanged, and a subtraction that wraps shows as a
\* value above every depth of the model.
UnsignedModulus == 1073741824

Workers == 1 .. NumWorkers
Localities == 1 .. NumLocalities
LocOf(w) == ((w - 1) % NumLocalities) + 1

\* the locality `search` is called on (hpx::find_here())
Here == 1

Unsigned(x) == x % UnsignedModulus

\* ------------------------------------------------------------------------
\* Search trees (the client's space and generator)
\* ------------------------------------------------------------------------

Root == << >>

TreeA == { << >>, <<0>>, <<1>>, <<0, 0>>, <<0, 1>>, <<0, 0, 0>> }
TreeB == { << >>, <<0>>, <<1>>, <<2>>, <<1, 0>>, <<1, 1>> }
\* a chain as high as a GeneratorStack has frames: descending it needs one
\* frame more (the root's frame and one per level)
TreeD == { [ i \in 1 .. k |-> 0 ] : k \in 0 .. maxStackDepth }
Trees == { TreeA, TreeB, TreeD }

\* the tree of the Indexed searches
TreeC == { << >>, <<0>>, <<1>>, <<0, 0>> }

AllNodes == UNION Trees \cup TreeC

Child(n, k) == Append(n, k)

IsPrefix(a, b) == Len(a) <= Len(b) /\ SubSeq(b, 1, Len(a)) = a

SetMax(S) == CHOOSE x \in S : \A y \in S : y <= x
SetMin(S) == CHOOSE x \in S : \A y \in S : x <= y


\* ------------------------------------------------------------------------
\* State
\* ------------------------------------------------------------------------

VARIABLES
  space,      \* the client's search space: the tree, the nodes' objectives and bounds
  skel,       \* the skeleton's compile-time tags (Random<Generator, Args...>)
  params,     \* API::Params, immutable after search entry
  searchPc,   \* position of Random::search
  tasks,      \* every subtree task created so far, by task id
  prom,       \* prom[t]: the completion promise of task t has been set
  pool,       \* the depth pool of each locality's local_policy
  worker,     \* the scheduler threads
  running,    \* running[l]: the schedulers of locality l have been started
  reg,        \* the registry of each locality
  incumbent,  \* the global incumbent component
  result,     \* what search returned
  \* the Indexed skeleton
  ixPrune,    \* the PruneLevel template argument
  ixSearchPc, \* position of Indexed::search
  ixTasks,    \* every indexed task created so far (searchChildTask), by id
  ixProm,     \* ixProm[t]: the promise handed to task t has been set
  ixQueue,    \* the work added to each locality's position manager
  ixWorker,   \* the indexed scheduler's threads
  ixRunning,  \* ixRunning[l]: the indexed scheduler of locality l is running
  ixBound,    \* ixBound[l]: localBound_ of the registry of locality l
  ixMsgs,     \* updateRegistryBound_act broadcasts in flight
  ixInc,      \* the global bounds::Incumbent component
  ixResult,   \* what Indexed::search returned
  ixSubmitted,\* history: the nodes passed to updateIncumbent so far
  ixExpanded, \* history: how often expand was called on each node
  \* the PriorityOrdered policy
  poInit,     \* PriorityOrderedPolicy::initPolicy: position, queue id, broadcast
  poQueues,   \* the priorityworkqueue components that exist, by id
  poPolicy,   \* poPolicy[l]: globalWorkqueue of the local_policy of locality l
  poMtx,      \* poMtx[l]: mtx of the local_policy of locality l is held
  poThread,   \* the threads calling getWork and addwork
  poAdded,    \* history: poAdded[t] says that addwork was called with task t
  poReturned, \* history: how often getWork returned task t
  poFuture,   \* the future the latest workRemaining call returned
  \* the max-clique generator
  mcGraph,    \* the BitGraph the generators refer to
  mcGen,      \* the GenNode under iteration
  mcProbe,    \* history: the last nth call that no next() has caught up with
  mcLast,     \* history: what the last next() returned, and what nth foretold
  \* the application mains
  appMain     \* one run of an application: its options, position and exit code

randomVars == << skel, params, searchPc, tasks, prom, pool, worker, running,
                 reg, incumbent, result >>

indexedVars == << ixPrune, ixSearchPc, ixTasks, ixProm, ixQueue, ixWorker, ixRunning,
                  ixBound, ixMsgs, ixInc, ixResult, ixSubmitted, ixExpanded >>

priorityVars == << poInit, poQueues, poPolicy, poMtx, poThread, poAdded, poReturned,
                  poFuture >>

genVars == << mcGraph, mcGen, mcProbe, mcLast >>

\* what the actions of one skeleton leave alone
outsideRandom == << indexedVars, priorityVars, genVars, appMain >>
outsideIndexed == << randomVars, priorityVars, genVars, appMain >>
outsidePriority == << space, randomVars, indexedVars, genVars, appMain >>
outsideGenNode == << space, randomVars, indexedVars, priorityVars, appMain >>
outsideMain == << space, randomVars, indexedVars, priorityVars, genVars >>

vars == << space, randomVars, indexedVars, priorityVars, genVars, appMain >>

\* ------------------------------------------------------------------------
\* The client's generator, objective and bound
\* ------------------------------------------------------------------------

NumChildren(n) == Cardinality({ c \in space.tree : Len(c) = Len(n) + 1 /\ IsPrefix(n, c) })

\* Generator(space, n): numChildren is known up front, next() walks the children
Generator(n) == [ node |-> n, numChildren |-> NumChildren(n), pos |-> 0 ]

GenNextNode(g) == Child(g.node, g.pos)
GenAdvance(g) == [ g EXCEPT !.pos = @ + 1 ]

\* the node's objective (Node::getObj)
Obj(n) == space.obj[n]

\* the client's bound function (BoundFunction<...>)
BoundFn(n) == space.bnd[n]

\* Objcmp, std::greater<Bound> by default
Objcmp(a, b) == a > b

\* ------------------------------------------------------------------------
\* Enumerators (one counter per node, so that double counting is visible)
\* ------------------------------------------------------------------------

EmptyEnum == [ n \in AllNodes |-> 0 ]
Accumulate(acc, n) == [ acc EXCEPT ![n] = @ + 1 ]
Combine(a, b) == [ n \in AllNodes |-> a[n] + b[n] ]

RECURSIVE SumEnums(_)
SumEnums(S) ==
  IF S = {} THEN EmptyEnum
  ELSE LET l == CHOOSE x \in S : TRUE
       IN Combine(reg[l].enum, SumEnums(S \ {l}))

\* ------------------------------------------------------------------------
\* Generator stacks
\* ------------------------------------------------------------------------

StackElem(n) == [ node |-> n, gen |-> Generator(n), seen |-> 0 ]

\* GeneratorStack(maxStackDepth, initElem): every slot starts as initElem
GeneratorStack(initElem) == [ i \in 0 .. (maxStackDepth - 1) |-> initElem ]

\* genStack[i] with i behind the last element: undefined behaviour
OutOfRange(i) == i >= maxStackDepth

\* what the first out-of-range access of a task can do: the process dies in
\* it, or it reaches the memory behind the array and expand goes on
StackAccessOutcomes == { "abort", "proceed" }

\* what genStack[i] reaches in a task: the array and, at index maxStackDepth,
\* the memory behind it, which is written before it is read
StackMemory(initElem) ==
  [ i \in 0 .. maxStackDepth |->
      IF OutOfRange(i) THEN initElem ELSE GeneratorStack(initElem)[i] ]


\* ------------------------------------------------------------------------
\* Registry, incumbent, processNode
\* ------------------------------------------------------------------------

IsEnumeration == skel.mode = "Enumeration"
IsOptimisation == skel.mode = "Optimisation"
IsDecision == skel.mode = "Decision"

\* updateRegistryBound on every locality: a bound is installed only if it
\* improves the one held
BroadcastBound(r, b) ==
  [ l \in Localities |-> [ r[l] EXCEPT !.localBound = IF Objcmp(b, @) THEN b ELSE @ ] ]

\* the stop flag set on every locality
BroadcastStop(r) == [ l \in Localities |-> [ r[l] EXCEPT !.stopSearch = TRUE ] ]

\* Incumbent::update: a candidate replaces the current node only when it is
\* strictly better
UpdateIncumbent(inc, n) == IF Objcmp(Obj(n), Obj(inc)) THEN n ELSE inc

\* Does the child's objective meet params.expectedObjective?
MeetsExpected(n) == Obj(n) >= params.expectedObjective

\* ProcessNode::processNode(params, space, child, acc) on locality l: what it
\* returns, the accumulator afterwards, and whether it updates the bound and
\* the incumbent and sets the stop flag
ProcessNode(l, child, acc) ==
  LET best == reg[l].localBound
      pruned == skel.useBound /\ ~ Objcmp(BoundFn(child), best)
      meets == IsDecision /\ MeetsExpected(child)
      improves == (IsOptimisation \/ IsDecision) /\ Objcmp(Obj(child), best)
  IN [ ret |-> IF pruned THEN (IF skel.pruneLevel THEN "Break" ELSE "Prune")
               ELSE IF meets THEN "Exit" ELSE "Continue",
       acc |-> IF IsEnumeration THEN Accumulate(acc, child) ELSE acc,
       update |-> ~ pruned /\ (meets \/ improves),
       stop |-> ~ pruned /\ meets ]

\* the registries after processNode's updates
RegAfter(pn, child) ==
  LET r1 == IF pn.update THEN BroadcastBound(reg, Obj(child)) ELSE reg
  IN IF pn.stop THEN BroadcastStop(r1) ELSE r1

IncumbentAfter(pn, child) ==
  IF pn.update THEN UpdateIncumbent(incumbent, child) ELSE incumbent

\* ------------------------------------------------------------------------
\* The depth pool
\* ------------------------------------------------------------------------

\* addwork(task, depth): push into bucket depth
AddWork(p, t, depth) == Append(p, [ task |-> t, bucket |-> depth ])

\* the entry getWork and steal pop: the newest one of the shallowest bucket
PoolTopIndex(p) ==
  LET shallowest == SetMin({ p[i].bucket : i \in 1 .. Len(p) })
  IN SetMax({ i \in 1 .. Len(p) : p[i].bucket = shallowest })

RemoveAt(s, i) == SubSeq(s, 1, i - 1) \o SubSeq(s, i + 1, Len(s))

\* ------------------------------------------------------------------------
\* Random::createTask
\* ------------------------------------------------------------------------

\* the task record bound by createTask: taskRoot, childDepth and the promise
\* (the task's id names its promise); the rest is the task's own stack state,
\* set when subtreeTask starts
NewTask(childDepth, taskRoot) ==
  [ taskRoot |-> taskRoot, childDepth |-> childDepth, st |-> "queued",
    pc |-> "loop", depth |-> childDepth, stackDepth |-> 0,
    genStack |-> StackMemory(StackElem(taskRoot)), outOfRange |-> FALSE,
    acc |-> EmptyEnum, childFutures |-> << >> ]

\* the bucket createTask pushes into: childDepth - 1, in unsigned arithmetic
TaskBucket(childDepth) == Unsigned(childDepth - 1)


\* ------------------------------------------------------------------------
\* Random::expand, one iteration of its while loop at a time
\* ------------------------------------------------------------------------

\* values of sp = (rand()<<15)+rand(): the smallest one and one no threshold exceeds
RandValues == { 0, RandScale }

\* rand() is called only if params.spawnProbability != 0
RandDraws == IF params.spawnProbability # 0 THEN RandValues ELSE { 0 }

\* the spawn test without its first half: sp < 1073741824 whatever
\* params.spawnProbability is
SpawnTestUnguarded(sp) == sp < RandScale

\* params.spawnProbability != 0 and sp < 1073741824/params.spawnProbability
SpawnTest(sp) ==
  /\ params.spawnProbability # 0
  /\ sp < (RandScale \div params.spawnProbability)

\* the frames the spawn loop looks at: for (auto i = 0; i < stackDepth; ++i)
SpawnCandidates(T) == 0 .. (T.stackDepth - 1)

\* the first frame of the stack that still has unseen children, or -1
SpawnFrame(T) ==
  LET open == { i \in SpawnCandidates(T) :
                  T.genStack[i].seen < T.genStack[i].gen.numChildren }
  IN IF open = {} THEN -1 ELSE SetMin(open)

\* the nodes drained from frame i by the inner while loop, in order
Drained(T, i) ==
  LET fr == T.genStack[i]
  IN [ k \in 1 .. (fr.gen.numChildren - fr.seen) |-> Child(fr.gen.node, fr.gen.pos + k - 1) ]

\* the inner while loop counting the children without taking them from the
\* generator
DrainFrameNoNext(fr) == [ fr EXCEPT !.seen = fr.gen.numChildren ]

\* frame i after the inner while loop: seen++ and gen.next() once per child
DrainFrame(fr) ==
  [ fr EXCEPT !.seen = fr.gen.numChildren,
              !.gen.pos = @ + (fr.gen.numChildren - fr.seen) ]

\* a spawn that gives every child the depth of the children of frame 0
SpawnDepthOfTask(T, i) == Unsigned(T.childDepth + 1)

\* the childDepth a child drained from frame i is created with
SpawnDepth(T, i) == Unsigned(T.childDepth + i + 1)

\* the task after the spawn part of an iteration; firstId is the id of the
\* first task created
AfterSpawn(T, i, firstId) ==
  [ T EXCEPT !.genStack[i] = DrainFrame(@),
             !.childFutures = @ \o [ k \in 1 .. Len(Drained(T, i)) |-> firstId + k - 1 ] ]

\* the depth limit test after descending
DepthLimitHit(depth) == skel.isDepthBounded /\ depth = params.maxDepth

\* the task after moving into the next child of the current frame, given
\* what processNode returned for it
MoveInto(T, child, pn) ==
  LET sd == T.stackDepth
      T1 == [ T EXCEPT !.genStack[sd + 1].node = child,
                       !.outOfRange = @ \/ OutOfRange(sd + 1),
                       !.genStack[sd].gen = GenAdvance(@),
                       !.genStack[sd].seen = @ + 1,
                       !.acc = pn.acc ]
  IN CASE pn.ret = "Exit" -> [ T1 EXCEPT !.pc = "ret" ]
       [] pn.ret = "Prune" -> T1
       [] pn.ret = "Break" ->
            [ T1 EXCEPT !.stackDepth = sd - 1, !.depth = Unsigned(@ - 1),
                        !.pc = IF sd - 1 >= 0 THEN "loop" ELSE "ret" ]
       [] OTHER ->
            IF DepthLimitHit(Unsigned(T.depth + 1))
            THEN T1
            ELSE [ T1 EXCEPT !.stackDepth = sd + 1, !.depth = Unsigned(@ + 1),
                             !.genStack[sd + 1].seen = 0,
                             !.genStack[sd + 1].gen = Generator(child) ]

\* the task when the process dies in the access to genStack[stackDepth + 1]
AbortIn(T) == [ T EXCEPT !.pc = "aborted", !.outOfRange = TRUE ]

\* the task after popping an exhausted frame
PopFrame(T) ==
  [ T EXCEPT !.stackDepth = @ - 1, !.depth = Unsigned(@ - 1),
             !.pc = IF T.stackDepth - 1 >= 0 THEN "loop" ELSE "ret" ]

HasNextChild(T) ==
  T.genStack[T.stackDepth].seen < T.genStack[T.stackDepth].gen.numChildren

\* the stop check at the top of the loop
StopSeen(l) == IsDecision /\ reg[l].stopSearch


\* ------------------------------------------------------------------------
\* Inputs of a Random search
\* ------------------------------------------------------------------------

ZeroObj(tree) == [ n \in tree |-> 0 ]
\* the objective functions of the searches: at most two nodes of the tree
\* have an objective other than 0; objectives are only ever compared, so the
\* values a function takes are consecutive from 0
ObjFns(tree) ==
  { o \in [ tree -> 0 .. MaxObj ] :
      /\ Cardinality({ n \in tree : o[n] # 0 }) <= 2
      /\ \A v \in 1 .. MaxObj :
           (\E n \in tree : o[n] = v) => \E m \in tree : o[m] = v - 1 }

\* params.spawnProbability: 0 (never spawn) or 1 (the threshold is RandScale)
SpawnProbabilities == { 0, 1 }

\* the best objective in the subtree of n
SubtreeBest(tree, o, n) == SetMax({ o[m] : m \in { d \in tree : IsPrefix(n, d) } })

\* the bound that is exact, and the one that is the same for every node:
\* neither underestimates the best objective of a node's subtree
ExactBound(tree, o) == [ n \in tree |-> SubtreeBest(tree, o, n) ]
CeilingBound(tree) == [ n \in tree |-> MaxObj ]
BoundFns(tree, o) == { ExactBound(tree, o), CeilingBound(tree) }

\* what a client asserts by enabling PruneLevel: the bounds of the children
\* of a node do not increase along the generator's order
OrderedByBound(tree, b) ==
  \A n \in tree : \A k \in 1 .. Cardinality(tree) :
    Child(n, k) \in tree => b[Child(n, k)] <= b[Child(n, k - 1)]

\* no bound function, BoundFunction alone, BoundFunction with PruneLevel
BoundingChoices ==
  { [ useBound |-> ub, pruneLevel |-> pl ] : ub \in BOOLEAN, pl \in BOOLEAN } \
    { [ useBound |-> FALSE, pruneLevel |-> TRUE ] }

\* the objectives of a tree with the bounding chosen for the search
ObjectiveChoices(tree) ==
  UNION { { [ obj |-> o, useBound |-> b.useBound, pruneLevel |-> b.pruneLevel,
              bnd |-> f ] :
            f \in IF b.useBound THEN BoundFns(tree, o) ELSE { ExactBound(tree, o) } } :
          o \in ObjFns(tree), b \in BoundingChoices }

EnumerationInputs ==
  { [ tree |-> tr, obj |-> ZeroObj(tr), bnd |-> ZeroObj(tr), mode |-> "Enumeration",
      isDepthBounded |-> db, useBound |-> FALSE, pruneLevel |-> FALSE,
      maxDepth |-> md, spawnProbability |-> sp, expectedObjective |-> 0 ] :
    tr \in Trees, db \in BOOLEAN, md \in 0 .. MaxMaxDepth, sp \in SpawnProbabilities }

OptimisationInputs ==
  { [ tree |-> TreeB, obj |-> x.obj, bnd |-> x.bnd, mode |-> "Optimisation",
      isDepthBounded |-> FALSE, useBound |-> x.useBound, pruneLevel |-> x.pruneLevel,
      maxDepth |-> 0, spawnProbability |-> sp, expectedObjective |-> 0 ] :
    x \in ObjectiveChoices(TreeB), sp \in SpawnProbabilities }

\* Decision searches use the exact bound; an expected objective above every
\* objective of the tree is out of reach whatever its value, so one such
\* value is enough
DecisionInputs ==
  UNION { { [ tree |-> TreeB, obj |-> x.obj, bnd |-> x.bnd, mode |-> "Decision",
              isDepthBounded |-> FALSE, useBound |-> x.useBound,
              pruneLevel |-> x.pruneLevel, maxDepth |-> 0, spawnProbability |-> sp,
              expectedObjective |-> e ] :
            sp \in SpawnProbabilities,
            e \in 1 .. (SetMax({ x.obj[n] : n \in TreeB }) + 1) } :
          x \in { y \in ObjectiveChoices(TreeB) : y.bnd = ExactBound(TreeB, y.obj) } }

RandomInputs ==
  { c \in EnumerationInputs : c.isDepthBounded \/ c.maxDepth = 0 }
    \cup { c \in OptimisationInputs \cup DecisionInputs :
             c.pruneLevel => OrderedByBound(c.tree, c.bnd) }

\* the registry before InitRegistryAct has run on the locality
NoRegistry ==
  [ init |-> FALSE, stopSearch |-> FALSE, localBound |-> 0, hasIncumbent |-> FALSE,
    enum |-> EmptyEnum ]

\* no Indexed search is under way
NoIndexedSearch ==
  /\ ixPrune = FALSE
  /\ ixSearchPc = "none"
  /\ ixTasks = << >>
  /\ ixProm = << >>
  /\ ixQueue = [ l \in Localities |-> << >> ]
  /\ ixWorker = [ w \in Workers |-> [ st |-> "off", task |-> 0 ] ]
  /\ ixRunning = [ l \in Localities |-> FALSE ]
  /\ ixBound = [ l \in Localities |-> 0 ]
  /\ ixMsgs = {}
  /\ ixInc = [ has |-> FALSE, node |-> Root ]
  /\ ixResult = [ kind |-> "none" ]
  /\ ixSubmitted = {}
  /\ ixExpanded = EmptyEnum

\* no Random search is under way
NoRandomSearch ==
  /\ skel = [ mode |-> "none", isDepthBounded |-> FALSE, useBound |-> FALSE,
              pruneLevel |-> FALSE ]
  /\ params = [ maxDepth |-> 0, spawnProbability |-> 0, expectedObjective |-> 0,
                initialBound |-> 0 ]
  /\ searchPc = "none"
  /\ tasks = << >>
  /\ prom = << >>
  /\ pool = [ l \in Localities |-> << >> ]
  /\ worker = [ w \in Workers |-> [ st |-> "off", task |-> 0 ] ]
  /\ running = [ l \in Localities |-> FALSE ]
  /\ reg = [ l \in Localities |-> NoRegistry ]
  /\ incumbent = Root
  /\ result = [ kind |-> "none" ]

\* PriorityOrderedPolicy::initPolicy is not called
\* no workRemaining call has been made
NoFuture == [ st |-> "none", answer |-> FALSE ]

NoPriorityPolicy ==
  /\ poInit = [ pc |-> "none", globalWorkqueue |-> 0, pending |-> {} ]
  /\ poQueues = << >>
  /\ poPolicy = [ l \in Localities |-> 0 ]
  /\ poMtx = [ l \in Localities |-> FALSE ]
  /\ poThread = << >>
  /\ poAdded = << >>
  /\ poReturned = << >>
  /\ poFuture = NoFuture

\* no generator is under iteration
NoGenerator ==
  /\ mcGraph = {}
  /\ mcGen = [ numChildren |-> 0 ]
  /\ mcProbe = [ active |-> FALSE ]
  /\ mcLast = [ kind |-> "none" ]

\* no application is run
NoMain == appMain = [ pc |-> "none" ]

\* the entry of Random::search with one of the inputs and params.initialBound
\* one of the bounds
SearchEntry(inputs, bounds) ==
  /\ \E c \in inputs, b \in bounds :
       /\ space = [ tree |-> c.tree, obj |-> c.obj, bnd |-> c.bnd ]
       /\ skel = [ mode |-> c.mode, isDepthBounded |-> c.isDepthBounded,
                   useBound |-> c.useBound, pruneLevel |-> c.pruneLevel ]
       /\ params = [ maxDepth |-> c.maxDepth, spawnProbability |-> c.spawnProbability,
                     expectedObjective |-> c.expectedObjective, initialBound |-> b ]
  /\ searchPc = "start"
  /\ tasks = << >>
  /\ prom = << >>
  /\ pool = [ l \in Localities |-> << >> ]
  /\ worker = [ w \in Workers |-> [ st |-> "off", task |-> 0 ] ]
  /\ running = [ l \in Localities |-> FALSE ]
  /\ reg = [ l \in Localities |-> NoRegistry ]
  /\ incumbent = Root
  /\ result = [ kind |-> "none" ]
  /\ NoIndexedSearch
  /\ NoPriorityPolicy
  /\ NoGenerator
  /\ NoMain

\* params.initialBound is left at 0
InitRandom == SearchEntry(RandomInputs, { 0 })

\* the values a client gives params.initialBound: from 0 up to one above
\* every objective of the tree
InitialBounds == 0 .. (MaxObj + 1)

\* an Optimisation or Decision search that prunes with a bound function, with
\* params.initialBound chosen by the client
InitRandomBound ==
  SearchEntry({ c \in RandomInputs : c.mode # "Enumeration" /\ c.useBound },
              InitialBounds)

\* ------------------------------------------------------------------------
\* Random::search
\* ------------------------------------------------------------------------

\* InitRegistryAct on all localities, Policy::initPolicy and startSchedulers
SearchInit ==
  /\ searchPc = "start"
  /\ reg' = [ l \in Localities |-> [ NoRegistry EXCEPT !.init = TRUE ] ]
  /\ pool' = [ l \in Localities |-> << >> ]
  /\ running' = [ l \in Localities |-> TRUE ]
  /\ worker' = [ w \in Workers |-> [ st |-> "idle", task |-> 0 ] ]
  /\ searchPc' = IF IsOptimisation \/ IsDecision THEN "incumbent" ELSE "root"
  /\ UNCHANGED << outsideRandom, space, skel, params, tasks, prom, incumbent, result >>

\* an initIncumbent that installs a bound one above params.initialBound
SearchIncumbentAbove ==
  /\ searchPc = "incumbent"
  /\ incumbent' = Root
  /\ reg' = [ l \in Localities |->
                [ reg[l] EXCEPT !.hasIncumbent = TRUE,
                                !.localBound = params.initialBound + 1 ] ]
  /\ searchPc' = "root"
  /\ UNCHANGED << outsideRandom, space, skel, params, tasks, prom, pool, worker, running, result >>

\* the incumbent is created, its handle broadcast, and initIncumbent installs
\* the root and params.initialBound
SearchIncumbent ==
  /\ searchPc = "incumbent"
  /\ incumbent' = Root
  /\ reg' = [ l \in Localities |->
                [ reg[l] EXCEPT !.hasIncumbent = TRUE, !.localBound = params.initialBound ] ]
  /\ searchPc' = "root"
  /\ UNCHANGED << outsideRandom, space, skel, params, tasks, prom, pool, worker, running, result >>

\* createTask(1, root): the root task goes to the pool of this locality
SearchCreateRoot ==
  /\ searchPc = "root"
  /\ tasks' = Append(tasks, NewTask(1, Root))
  /\ prom' = Append(prom, FALSE)
  /\ pool' = [ pool EXCEPT ![Here] = AddWork(@, Len(tasks) + 1, TaskBucket(1)) ]
  /\ searchPc' = "wait"
  /\ UNCHANGED << outsideRandom, space, skel, params, worker, running, reg, incumbent, result >>

\* the future of the root task
RootFuture == 1

\* stopSchedulers is broadcast without the .get() on the root future
SearchStopNoGet ==
  /\ searchPc = "wait"
  /\ running' = [ l \in Localities |-> FALSE ]
  /\ searchPc' = "stopped"
  /\ UNCHANGED << outsideRandom, space, skel, params, tasks, prom, pool, worker, reg, incumbent, result >>

\* .get() on the root future returns, stopSchedulers is broadcast
SearchStop ==
  /\ searchPc = "wait"
  /\ prom[RootFuture]
  /\ running' = [ l \in Localities |-> FALSE ]
  /\ searchPc' = "stopped"
  /\ UNCHANGED << outsideRandom, space, skel, params, tasks, prom, pool, worker, reg, incumbent, result >>

\* combineEnumerators, or the read of the global incumbent
SearchReturn ==
  /\ searchPc = "stopped"
  /\ result' = IF IsEnumeration
               THEN [ kind |-> "enum", counts |-> SumEnums(Localities) ]
               ELSE [ kind |-> "node", node |-> incumbent ]
  /\ searchPc' = "done"
  /\ UNCHANGED << outsideRandom, space, skel, params, tasks, prom, pool, worker, running, reg, incumbent >>


\* ------------------------------------------------------------------------
\* The scheduler's workers
\* ------------------------------------------------------------------------

\* a task start that does not count the task's root
StartTaskNoCount(T) ==
  [ T EXCEPT !.st = "running", !.pc = "loop", !.depth = T.childDepth,
             !.stackDepth = 0,
             !.genStack = StackMemory(StackElem(T.taskRoot)),
             !.acc = EmptyEnum,
             !.childFutures = << >> ]

\* subtreeTask up to the first loop test of expand: the stack is set up and
\* the task's root is counted
StartTask(T) ==
  [ T EXCEPT !.st = "running", !.pc = "loop", !.depth = T.childDepth,
             !.stackDepth = 0,
             !.genStack = StackMemory(StackElem(T.taskRoot)),
             !.acc = IF IsEnumeration THEN Accumulate(EmptyEnum, T.taskRoot) ELSE EmptyEnum,
             !.childFutures = << >> ]

\* a worker of a running scheduler that has not seen the stop flag asks for work
MayGetWork(w) ==
  /\ worker[w].st = "idle"
  /\ running[LocOf(w)]
  /\ ~ reg[LocOf(w)].stopSearch

\* worker w takes the entry at the top of the pool of locality from and runs it
TakeFrom(w, from) ==
  LET i == PoolTopIndex(pool[from])
      t == pool[from][i].task
  IN /\ pool' = [ pool EXCEPT ![from] = RemoveAt(@, i) ]
     /\ tasks' = [ tasks EXCEPT ![t] = StartTask(@) ]
     /\ worker' = [ worker EXCEPT ![w] = [ st |-> "busy", task |-> t ] ]
     /\ UNCHANGED << outsideRandom, space, skel, params, searchPc, prom, running, reg, incumbent, result >>

\* policy.getWork() returns a task of the local pool
GetWork(w) ==
  /\ MayGetWork(w)
  /\ pool[LocOf(w)] # << >>
  /\ TakeFrom(w, LocOf(w))

\* the local pool is empty: steal from a remote locality's pool
Steal(w) ==
  /\ MayGetWork(w)
  /\ pool[LocOf(w)] = << >>
  /\ \E v \in Localities \ { LocOf(w) } :
       /\ pool[v] # << >>
       /\ TakeFrom(w, v)

\* the worker loop ends: the stop flag is set, or stopSchedulers has arrived
WorkerExit(w) ==
  /\ worker[w].st = "idle"
  /\ reg[LocOf(w)].stopSearch \/ ~ running[LocOf(w)]
  /\ worker' = [ worker EXCEPT ![w].st = "exited" ]
  /\ UNCHANGED << outsideRandom, space, skel, params, searchPc, tasks, prom, pool, running, reg,
                  incumbent, result >>

\* one iteration of the while loop of expand in the task worker w runs
ExpandStep(w) ==
  /\ worker[w].st = "busy"
  /\ tasks[worker[w].task].pc = "loop"
  /\ LET t == worker[w].task
         T == tasks[t]
         l == LocOf(w)
     IN IF StopSeen(l)
        THEN /\ tasks' = [ tasks EXCEPT ![t].pc = "ret" ]
             /\ UNCHANGED << prom, pool, reg, incumbent >>
        ELSE \E sp \in RandDraws, oc \in StackAccessOutcomes :
               LET i == IF SpawnTest(sp) THEN SpawnFrame(T) ELSE -1
                   firstId == Len(tasks) + 1
                   roots == IF i >= 0 THEN Drained(T, i) ELSE << >>
                   T1 == IF i >= 0 THEN AfterSpawn(T, i, firstId) ELSE T
                   has == HasNextChild(T1)
                   undefined == has /\ OutOfRange(T1.stackDepth + 1) /\ ~ T1.outOfRange
                   aborts == undefined /\ oc = "abort"
                   defined == ~ undefined /\ oc = "proceed"
                   child == GenNextNode(T1.genStack[T1.stackDepth].gen)
                   pn == ProcessNode(l, child, T1.acc)
                   T2 == IF aborts THEN AbortIn(T1)
                         ELSE IF has THEN MoveInto(T1, child, pn) ELSE PopFrame(T1)
               IN /\ undefined \/ defined
                  /\ tasks' = [ tasks EXCEPT ![t] = T2 ]
                              \o [ k \in 1 .. Len(roots) |-> NewTask(SpawnDepth(T, i), roots[k]) ]
                  /\ prom' = prom \o [ k \in 1 .. Len(roots) |-> FALSE ]
                  /\ pool' = [ pool EXCEPT ![l] =
                                 @ \o [ k \in 1 .. Len(roots) |->
                                          [ task |-> firstId + k - 1,
                                            bucket |-> TaskBucket(SpawnDepth(T, i)) ] ] ]
                  /\ reg' = IF has /\ ~ aborts THEN RegAfter(pn, child) ELSE reg
                  /\ incumbent' = IF has /\ ~ aborts THEN IncumbentAfter(pn, child)
                                  ELSE incumbent
  /\ UNCHANGED << outsideRandom, space, skel, params, searchPc, worker, running, result >>

\* a task end that leaves the registry as it is
UpdateEnumeratorSkip(l, acc) == reg

\* reg->updateEnumerator(acc) on locality l, in Enumeration mode only
UpdateEnumerator(l, acc) ==
  IF IsEnumeration THEN [ reg EXCEPT ![l].enum = Combine(@, acc) ] ELSE reg

\* expand has returned: the accumulator is merged into the locality's registry,
\* the wait for the children is handed to a continuation, the worker is free
SubtreeTaskReturn(w) ==
  /\ worker[w].st = "busy"
  /\ tasks[worker[w].task].pc = "ret"
  /\ LET t == worker[w].task
         l == LocOf(w)
     IN /\ reg' = UpdateEnumerator(l, tasks[t].acc)
        /\ tasks' = [ tasks EXCEPT ![t].st = "waiting" ]
  /\ worker' = [ worker EXCEPT ![w] = [ st |-> "idle", task |-> 0 ] ]
  /\ UNCHANGED << outsideRandom, space, skel, params, searchPc, prom, pool, running, incumbent, result >>

\* a continuation that does not wait for the child futures
WaitAllNone(futs) == TRUE

\* hpx::wait_all(futs): every child future is ready
WaitAll(futs) == \A k \in 1 .. Len(futs) : prom[futs[k]]

\* the continuation of task t: once all child futures are ready it sets the
\* task's promise
Continuation(t) ==
  /\ tasks[t].st = "waiting"
  /\ WaitAll(tasks[t].childFutures)
  /\ prom' = [ prom EXCEPT ![t] = TRUE ]
  /\ tasks' = [ tasks EXCEPT ![t].st = "done" ]
  /\ UNCHANGED << outsideRandom, space, skel, params, searchPc, pool, worker, running, reg,
                  incumbent, result >>

\* ------------------------------------------------------------------------
\* Properties of the Random skeleton
\* ------------------------------------------------------------------------

Expanding(T) == T.st \in { "queued", "running" }

\* C1: the completion promise of a Random subtree task is set only after the
\* task's own expansion has finished and the promises of all tasks it spawned
\* are set; search gets past its wait on the root promise only when no
\* created task is still queued or running.
C1_PromiseAfterSubtree ==
  /\ \A t \in 1 .. Len(tasks) :
       prom[t] => /\ ~ Expanding(tasks[t])
                  /\ \A k \in 1 .. Len(tasks[t].childFutures) :
                       prom[tasks[t].childFutures[k]]
  /\ searchPc \in { "stopped", "done" } =>
       /\ \A t \in 1 .. Len(tasks) : ~ Expanding(tasks[t]) /\ prom[t]
       /\ \A l \in Localities : pool[l] = << >>
       /\ \A w \in Workers : worker[w].st # "busy"

\* search is past its wait after a run in which a spawned task spawned tasks
C1_Witness ==
  /\ searchPc = "stopped"
  /\ \E t \in 2 .. Len(tasks) : tasks[t].childFutures # << >>

RECURSIVE SumAcc(_, _)
SumAcc(ts, n) == IF ts = << >> THEN 0 ELSE Head(ts).acc[n] + SumAcc(Tail(ts), n)

\* how often node n has been accumulated, over all tasks
TaskCount(n) == SumAcc(tasks, n)

\* C3: Random skeleton, Enumeration, no depth limit: every tree node is
\* accumulated exactly once in total across all tasks, whatever is spawned:
\* never twice while the search runs, and exactly once when search returns,
\* which is also what the combined counts say.
C3_EachNodeOnce ==
  (IsEnumeration /\ ~ skel.isDepthBounded) =>
    /\ \A n \in space.tree : TaskCount(n) <= 1
    /\ searchPc = "done" =>
         \A n \in space.tree : TaskCount(n) = 1 /\ result.counts[n] = 1

\* an enumeration without depth limit has returned after spawning tasks
C3_Witness ==
  /\ IsEnumeration
  /\ ~ skel.isDepthBounded
  /\ searchPc = "done"
  /\ Len(tasks) >= 3

\* the best objective of the tree
MaxObjective == SetMax({ space.obj[n] : n \in space.tree })

\* C4: Random skeleton, Optimisation without a bound function: the objective
\* of the node search returns is the maximum objective over all tree nodes,
\* whatever is spawned.
C4_ReturnsMaximum ==
  (searchPc = "done" /\ IsOptimisation /\ ~ skel.useBound) =>
    Obj(result.node) = MaxObjective

\* C8: Random skeleton, Decision: if a node below the root meets
\* params.expectedObjective, search returns a node that meets it; if no node
\* does, the stop flag is never set and the returned node has the maximum
\* objective of the tree.
C8_DecisionCorrect ==
  (searchPc = "done" /\ IsDecision) =>
    IF \E n \in space.tree \ { Root } : MeetsExpected(n)
    THEN MeetsExpected(result.node)
    ELSE MeetsExpected(Root)
         \/ (/\ Obj(result.node) = MaxObjective
             /\ \A l \in Localities : ~ reg[l].stopSearch)

\* a task has generated children of node n: a frame of its stack holds a
\* generator of n that has handed out a child
GeneratedChildrenOf(n) ==
  \E t \in 1 .. Len(tasks) : \E j \in 0 .. (maxStackDepth - 1) :
    /\ tasks[t].genStack[j].gen.node = n
    /\ tasks[t].genStack[j].gen.pos > 0

\* C10: Random skeleton with DepthLimited, the root at tree depth 0: for every
\* params.maxDepth >= 0 no task generates the children of a node at tree depth
\* maxDepth, and no node deeper than maxDepth is visited.
C10_DepthLimit ==
  (IsEnumeration /\ skel.isDepthBounded) =>
    \A n \in space.tree :
      /\ Len(n) = params.maxDepth => ~ GeneratedChildrenOf(n)
      /\ Len(n) > params.maxDepth => TaskCount(n) = 0

\* C11: Random skeleton, Enumeration with DepthLimited, the root at tree depth
\* 0: when search has returned, the combined counts hold every tree node of
\* depth 0..params.maxDepth once.
C11_CountsToMaxDepth ==
  (searchPc = "done" /\ IsEnumeration /\ skel.isDepthBounded) =>
    \A n \in space.tree : Len(n) <= params.maxDepth => result.counts[n] = 1

\* C12: Random skeleton with a bound function: a step that creates tasks from
\* inside expand creates them only for children whose bound is strictly
\* better than the bound the spawning worker's locality holds at that time.
C12_SpawnAfterBound ==
  [][skel.useBound =>
       \A t \in (Len(tasks) + 1) .. Len(tasks') :
         t # RootFuture =>
           \E w \in Workers :
             /\ worker[w].st = "busy"
             /\ tasks'[worker[w].task] # tasks[worker[w].task]
             /\ Objcmp(BoundFn(tasks'[t].taskRoot), reg[LocOf(w)].localBound)]_vars

\* the frames of the task's stack, the current one included, that still have
\* unseen children
OpenFrames(T) ==
  { i \in 0 .. T.stackDepth : T.genStack[i].seen < T.genStack[i].gen.numChildren }

\* C13: Random skeleton: in an iteration whose spawn test succeeds, the frame
\* whose unseen children become tasks is the shallowest frame with unseen
\* children among all frames of the stack, the current frame included.
C13_SpawnsShallowestFrame ==
  \A t \in 1 .. Len(tasks) :
    (/\ tasks[t].st = "running"
     /\ tasks[t].pc = "loop"
     /\ params.spawnProbability # 0
     /\ OpenFrames(tasks[t]) # {})
      => SpawnFrame(tasks[t]) = SetMin(OpenFrames(tasks[t]))

C17_StackInRange ==
  \A t \in 1 .. Len(tasks) : ~ tasks[t].outOfRange

\* n comes before m in the depth-first order that takes children in the
\* generator's order
PreorderBefore(n, m) ==
  /\ n # m
  /\ \/ IsPrefix(n, m)
     \/ \E i \in 1 .. Len(n) :
          /\ i <= Len(m)
          /\ SubSeq(n, 1, i - 1) = SubSeq(m, 1, i - 1)
          /\ n[i] < m[i]

\* C18: with params.spawnProbability = 0 nothing is spawned from inside
\* expand: the root task is the only task ever created, it has no child
\* futures, and it visits the tree depth-first in generator order (what it
\* has visited is always an initial part of that order, each node once),
\* the whole tree by the time search returns.
C18_NoSpawnDepthFirst ==
  params.spawnProbability = 0 =>
    /\ Len(tasks) <= 1
    /\ \A t \in 1 .. Len(tasks) :
         /\ t = RootFuture
         /\ tasks[t].taskRoot = Root
         /\ tasks[t].childFutures = << >>
         /\ (IsEnumeration /\ ~ skel.isDepthBounded) =>
              \A m \in space.tree :
                /\ tasks[t].acc[m] <= 1
                /\ tasks[t].acc[m] = 1 =>
                     \A n \in space.tree : PreorderBefore(n, m) => tasks[t].acc[n] = 1
    /\ (searchPc = "done" /\ IsEnumeration /\ ~ skel.isDepthBounded) =>
         \A n \in space.tree : result.counts[n] = 1

\* a search without spawning has returned the counts of a tree with branches
C18_Witness ==
  /\ params.spawnProbability = 0
  /\ searchPc = "done"
  /\ IsEnumeration /\ ~ skel.isDepthBounded
  /\ space.tree = TreeA
  /\ Len(tasks) = 1 /\ tasks[RootFuture].acc[<<0, 0, 0>>] = 1

\* C19: in Random search a subtree task body runs on a locality only once
\* that locality's registry is initialised and, in Optimisation and Decision
\* mode, holds the incumbent handle and the initial bound; stopSchedulers is
\* broadcast only after the root promise has fired; the incumbent is read
\* only after stopSchedulers has completed on every locality.
C19_SearchOrder ==
  /\ \A w \in Workers :
       worker[w].st = "busy" =>
         /\ reg[LocOf(w)].init
         /\ (IsOptimisation \/ IsDecision) => reg[LocOf(w)].hasIncumbent
  /\ \A t \in 1 .. Len(tasks) :
       tasks[t].st # "queued" =>
         /\ \A l \in Localities : reg[l].init
         /\ (IsOptimisation \/ IsDecision) => \A l \in Localities : reg[l].hasIncumbent
  /\ searchPc \in { "stopped", "done" } =>
       /\ prom[RootFuture]
       /\ \A l \in Localities : ~ running[l]
  /\ (\E l \in Localities : reg[l].init /\ ~ running[l]) => prom[RootFuture]
  /\ result.kind = "node" =>
       /\ searchPc = "done"
       /\ \A l \in Localities : ~ running[l]

\* an Optimisation or Decision search that ran more than one task has read
\* the incumbent
C19_Witness ==
  /\ IsOptimisation \/ IsDecision
  /\ result.kind = "node"
  /\ Len(tasks) >= 2
  /\ \E l \in Localities : reg[l].localBound # params.initialBound

\* the frames of the stack of a task that expand is working on
LiveFrames(T) == 0 .. T.stackDepth

\* C25: in every frame of the stack of a task in expand, seen is at most
\* gen.numChildren and equals the number of next() calls made on the frame's
\* generator (gen.pos), whether the calls came from descents or from a spawn
\* that drained the frame; so no generator is asked for more children than
\* it has.
C25_SeenCountsNext ==
  \A t \in 1 .. Len(tasks) :
    (tasks[t].st = "running" /\ tasks[t].pc = "loop") =>
      \A i \in LiveFrames(tasks[t]) :
        /\ tasks[t].genStack[i].seen <= tasks[t].genStack[i].gen.numChildren
        /\ tasks[t].genStack[i].seen = tasks[t].genStack[i].gen.pos
        /\ tasks[t].genStack[i].gen.pos <= tasks[t].genStack[i].gen.numChildren

\* a task in expand that has descended from a frame a spawn drained
\* afterwards: frame 0 took one child itself and gave the others away
C25_Witness ==
  \E t \in 1 .. Len(tasks) :
    /\ tasks[t].st = "running" /\ tasks[t].pc = "loop"
    /\ tasks[t].stackDepth >= 1
    /\ tasks[t].childFutures # << >>
    /\ tasks[t].genStack[0].seen = tasks[t].genStack[0].gen.numChildren
    /\ Len(tasks[t].childFutures) < tasks[t].genStack[0].seen

NextRandom ==
  \/ SearchInit
  \/ SearchIncumbent
  \/ SearchCreateRoot
  \/ SearchStop
  \/ SearchReturn
  \/ \E w \in Workers : GetWork(w)
  \/ \E w \in Workers : Steal(w)
  \/ \E w \in Workers : WorkerExit(w)
  \/ \E w \in Workers : ExpandStep(w)
  \/ \E w \in Workers : SubtreeTaskReturn(w)
  \/ \E t \in 1 .. Len(tasks) : Continuation(t)

\* C9: Random skeleton, Decision: once the stop flag is set, every created
\* task gets its promise set and search returns; so while the flag is set and
\* a promise is still unset, or search has not returned, the run is not stuck.
C9_NoHangAfterStop ==
  (/\ IsDecision
   /\ \E l \in Localities : reg[l].stopSearch
   /\ \/ \E t \in 1 .. Len(tasks) : ~ prom[t]
      \/ searchPc # "done")
    => ENABLED NextRandom

SpecRandom == InitRandom /\ [][NextRandom]_vars

\* Random::search with params.initialBound chosen by the client
SpecRandomBound == InitRandomBound /\ [][NextRandom]_vars

\* the nodes that next() calls of this step return: the children of the frames
\* of a running task between the generator's position before the step and
\* its position after it
GeneratedInStep ==
  UNION { { Child(tasks[t].genStack[i].gen.node, k) :
              k \in tasks[t].genStack[i].gen.pos ..
                      (tasks'[t].genStack[i].gen.pos - 1) } :
          t \in { u \in 1 .. Len(tasks) : tasks[u].st = "running" },
          i \in 0 .. (maxStackDepth - 1) }

\* a step that changes the bound of a locality is initIncumbent installing
\* params.initialBound, or installs the objective of a node generated in the
\* step
BoundInstalledFrom ==
  \A l \in Localities :
    reg'[l].localBound # reg[l].localBound =>
      \/ searchPc = "incumbent" /\ reg'[l].localBound = params.initialBound
      \/ \E n \in GeneratedInStep : reg'[l].localBound = Obj(n)

\* the best objective of the nodes of the tree, those never generated included
BestOfTree == SetMax({ Obj(n) : n \in space.tree })

SpecRandomFair == SpecRandom /\ WF_vars(NextRandom)

\* C24: under fair scheduling Random search eventually returns, whatever the
\* tree and the mode: every spawned task gets executed and the root promise
\* fires.
C24_SearchReturns == <>(searchPc = "done")


\* the depth of a node in the tree: the length of its path from the root
TreeDepth(n) == Len(n)

\* the entries of all depth pools
PoolEntries == UNION { { pool[l][k] : k \in 1 .. Len(pool[l]) } : l \in Localities }

\* C30: every task is created with childDepth >= 1, one more than the tree
\* depth of its root node, and waits in bucket childDepth - 1, the tree depth
\* of its root node: the subtraction is done on a value of at least 1 and
\* does not wrap.
C30_BucketIsTreeDepth ==
  /\ \A t \in 1 .. Len(tasks) :
       /\ tasks[t].childDepth >= 1
       /\ tasks[t].childDepth - 1 = TreeDepth(tasks[t].taskRoot)
  /\ \A e \in PoolEntries :
       /\ e.bucket = tasks[e.task].childDepth - 1
       /\ e.bucket = TreeDepth(tasks[e.task].taskRoot)

\* the root task has drained a frame above frame 0 and the task made of
\* that child is waiting in a bucket for depth 2 or more
C30_Witness ==
  \E e \in PoolEntries :
    /\ e.bucket >= 2
    /\ \E k \in 1 .. Len(tasks[RootFuture].childFutures) :
         tasks[RootFuture].childFutures[k] = e.task

\* a task that is past reg->updateEnumerator(acc)
Merged(T) == T.st \in { "waiting", "done" }

\* how often node n is counted in the accumulators of the merged tasks
MergedCount(ts, n) ==
  SumAcc(SelectSeq(ts, Merged), n)

\* C29: in Enumeration mode a task has merged its accumulator into the
\* registry of its locality before its promise is set; the registries hold
\* the counts of the merged tasks, each once, and when search combines them
\* after the root promise every task that ran is merged, so the result is the
\* sum of the accumulators of all tasks.
C29_MergedBeforePromise ==
  IsEnumeration =>
    /\ \A t \in 1 .. Len(tasks) : prom[t] => Merged(tasks[t])
    /\ reg[Here].init =>
         \A n \in space.tree : SumEnums(Localities)[n] = MergedCount(tasks, n)
    /\ searchPc \in { "stopped", "done" } =>
         \A t \in 1 .. Len(tasks) : Merged(tasks[t])
    /\ searchPc = "done" =>
         \A n \in space.tree : result.counts[n] = TaskCount(n)

\* an enumeration has returned the combined counts of tasks that ran on
\* different localities
C29_Witness ==
  /\ IsEnumeration
  /\ searchPc = "done"
  /\ Len(tasks) >= 2
  /\ \A l \in Localities : \E n \in space.tree : reg[l].enum[n] > 0

\* a step changes promise t only by setting it, in the continuation of task t
\* itself, and a task whose promise is set sets nothing again
PromiseSetOnceByOwner ==
  \A t \in 1 .. Len(prom) :
    /\ prom'[t] # prom[t] =>
         (~ prom[t] /\ prom'[t] /\ tasks[t].st = "waiting" /\ tasks'[t].st = "done")
    /\ tasks[t].st = "done" => (tasks'[t].st = "done" /\ prom'[t])

\* a task that has left expand (whichever way) and has not set its promise
LeftExpandUnset(T) == T.st = "waiting" \/ (T.st = "running" /\ T.pc = "ret")

\* C28: each completion promise is set exactly once: never twice and never
\* by another task, and a task that has left expand (stack exhausted, stop
\* flag seen, Exit) does set its promise, so that in the end no task is left
\* between its return from expand and its promise.
C28_PromiseExactlyOnce ==
  /\ [][PromiseSetOnceByOwner]_vars
  /\ <>[](\A t \in 1 .. Len(tasks) : ~ LeftExpandUnset(tasks[t]))


\* ========================================================================
\* The Indexed skeleton
\* ========================================================================

\* objectives of the nodes of an Indexed search range over 0..IxMaxObj
IxMaxObj == 2

IxTree == TreeC

\* ------------------------------------------------------------------------
\* positionIndex
\* ------------------------------------------------------------------------

NewLevel == [ numChildren |-> 0, taken |-> {} ]

\* the position index of a task that starts at path: one level, nothing taken
NewPositionIndex(path) ==
  [ path |-> path, base |-> Len(path), levels |-> << NewLevel >>, futures |-> {} ]

SetNumChildren(pos, n) == [ pos EXCEPT !.levels[Len(pos.levels)].numChildren = n ]

\* the positions of a level neither handed to the owner nor to a stealer
Untaken(lv) == (0 .. (lv.numChildren - 1)) \ lv.taken

\* getNextPosition(): the next position of the current level that the owner
\* still owns, or -1
NextPosition(pos) ==
  LET free == Untaken(pos.levels[Len(pos.levels)])
  IN IF free = {} THEN -1 ELSE SetMin(free)

TakePosition(pos, d, k) == [ pos EXCEPT !.levels[d].taken = @ \cup { k } ]

\* the index after getNextPosition(): the position returned is the owner's
AfterGetNextPosition(pos) ==
  IF NextPosition(pos) < 0 THEN pos
  ELSE TakePosition(pos, Len(pos.levels), NextPosition(pos))

\* pruneLevel(): nothing is left at the current level
PruneLevelPos(pos) ==
  [ pos EXCEPT !.levels[Len(pos.levels)].taken =
                 0 .. (pos.levels[Len(pos.levels)].numChildren - 1) ]

PreExpand(pos, i) ==
  [ pos EXCEPT !.path = Append(@, i), !.levels = Append(@, NewLevel) ]

PostExpand(pos) ==
  [ pos EXCEPT !.path = SubSeq(@, 1, Len(@) - 1),
               !.levels = SubSeq(@, 1, Len(@) - 1) ]

\* what a stealer may claim: an untaken position k of some level d
StealChoices(pos) ==
  UNION { { << d, k >> : k \in Untaken(pos.levels[d]) } : d \in 1 .. Len(pos.levels) }

\* the path of the position k of level d
StolenPath(pos, d, k) == Append(SubSeq(pos.path, 1, pos.base + d - 1), k)

\* the index after a steal of position k of level d; fut is the future of the
\* promise handed to the stolen task
AfterSteal(pos, d, k, fut) ==
  [ TakePosition(pos, d, k) EXCEPT !.futures = @ \cup { fut } ]

\* ------------------------------------------------------------------------
\* Registry bound and incumbent of the Indexed skeleton
\* ------------------------------------------------------------------------

\* updateRegistryBound(bnd): bnd is installed only if it improves localBound_
UpdateRegistryBound(cur, bnd) == IF bnd > cur THEN bnd ELSE cur

NoIncumbent == [ has |-> FALSE, node |-> Root ]

\* Incumbent::updateIncumbent: a candidate replaces the current node only when
\* it is strictly better
IxUpdateIncumbent(inc, n) ==
  IF ~ inc.has \/ Obj(n) > Obj(inc.node) THEN [ has |-> TRUE, node |-> n ] ELSE inc

\* ------------------------------------------------------------------------
\* getStartingNode
\* ------------------------------------------------------------------------

\* newCands.nth(space, node, p)
Nth(node, p) == Child(node, p)

RECURSIVE WalkPath(_, _)
WalkPath(node, path) ==
  IF path = << >> THEN node ELSE WalkPath(Nth(node, Head(path)), Tail(path))

\* the walk from the root without erasing the leading 0 of the path
GetStartingNodeKeepZero(path) == WalkPath(Root, path)

\* the leading 0 of the path stands for the root and is erased
GetStartingNode(path) == WalkPath(Root, Tail(path))


\* ------------------------------------------------------------------------
\* Indexed::expand, a recursion kept as a stack of frames
\* ------------------------------------------------------------------------

\* the locals of one call of expand on node n: g counts the calls of
\* newCands.next(), i and nextPos are the loop's counters, lbnd the copy of
\* the local bound
NewFrame(n) == [ n |-> n, g |-> 0, i |-> 0, nextPos |-> -1, lbnd |-> 0, pc |-> "next" ]

\* the child c the frame holds: what the last call of next() returned
FrameChild(f) == Child(f.n, f.g - 1)

\* the generator is not advanced past the positions the owner does not own
SkipCountNone(i, nextPos) == 0

\* how many further calls of next() follow the first one of an iteration
SkipCount(i, nextPos) == IF nextPos # i /\ nextPos - i > 0 THEN nextPos - i ELSE 0

\* i left as it is when positions were skipped
SyncIndexKeep(i, nextPos) == i

\* i after the adjustment to nextPos
SyncIndex(i, nextPos) == IF nextPos # i THEN i + (nextPos - i) ELSE i

\* the frame after getNextPosition() returned nextPos >= 0 and c was fetched
FetchChild(f, nextPos) ==
  [ f EXCEPT !.nextPos = nextPos,
             !.g = @ + 1 + SkipCount(f.i, nextPos),
             !.i = SyncIndex(f.i, nextPos),
             !.pc = "bound" ]

\* the new task record of searchChildTask for the work (path, promise)
NewIndexedTask(path) ==
  [ path |-> path, st |-> "queued", pos |-> NewPositionIndex(path), frames |-> << >> ]

\* expand(pos, n) is entered: Gen::invoke and pos.setNumChildren
EnterExpand(T, n) ==
  [ T EXCEPT !.pos = SetNumChildren(@, NumChildren(n)),
             !.frames = Append(@, NewFrame(n)) ]

\* searchChildTask up to the loop of expand
StartIndexedTask(T) ==
  EnterExpand([ T EXCEPT !.st = "expand" ], GetStartingNode(T.pos.path))

\* the innermost call of expand returns: the task goes on after its expand, or
\* the caller goes on with postExpand() and ++i
ReturnFromExpand(T) ==
  LET k == Len(T.frames)
  IN IF k = 1
     THEN [ T EXCEPT !.frames = << >>, !.st = "setPromise" ]
     ELSE [ T EXCEPT !.frames = [ j \in 1 .. (k - 1) |->
                                    IF j = k - 1
                                    THEN [ T.frames[j] EXCEPT !.i = @ + 1, !.pc = "next" ]
                                    ELSE T.frames[j] ],
                     !.pos = PostExpand(@) ]

CountExpand(n) == [ ixExpanded EXCEPT ![n] = @ + 1 ]


\* ------------------------------------------------------------------------
\* Indexed::search
\* ------------------------------------------------------------------------

\* the objective functions of the Indexed searches.  The skeleton only
\* compares objectives, so the values a function takes are consecutive from 0
IxObjFns ==
  { o \in [ IxTree -> 0 .. IxMaxObj ] :
      /\ o[Root] = 0
      /\ \A v \in 1 .. IxMaxObj :
           (\E n \in IxTree : o[n] = v) => \E m \in IxTree : o[m] = v - 1 }

InitIndexed ==
  /\ \E o \in IxObjFns :
       space = [ tree |-> IxTree, obj |-> o, bnd |-> ExactBound(IxTree, o) ]
  /\ ixPrune \in { p \in BOOLEAN : p => OrderedByBound(space.tree, space.bnd) }
  /\ ixSearchPc = "start"
  /\ ixTasks = << >>
  /\ ixProm = << >>
  /\ ixQueue = [ l \in Localities |-> << >> ]
  /\ ixWorker = [ w \in Workers |-> [ st |-> "off", task |-> 0 ] ]
  /\ ixRunning = [ l \in Localities |-> FALSE ]
  /\ ixBound = [ l \in Localities |-> 0 ]
  /\ ixMsgs = {}
  /\ ixInc = NoIncumbent
  /\ ixResult = [ kind |-> "none" ]
  /\ ixSubmitted = {}
  /\ ixExpanded = EmptyEnum
  /\ NoRandomSearch
  /\ NoPriorityPolicy
  /\ NoGenerator
  /\ NoMain

\* the registries are initialised with the root's objective, the incumbent is
\* created and given the root, the position managers and schedulers start
IxSearchInit ==
  /\ ixSearchPc = "start"
  /\ ixBound' = [ l \in Localities |-> Obj(Root) ]
  /\ ixInc' = IxUpdateIncumbent(NoIncumbent, Root)
  /\ ixSubmitted' = { Root }
  /\ ixQueue' = [ l \in Localities |-> << >> ]
  /\ ixRunning' = [ l \in Localities |-> TRUE ]
  /\ ixWorker' = [ w \in Workers |-> [ st |-> "idle", task |-> 0 ] ]
  /\ ixSearchPc' = "addWork"
  /\ UNCHANGED << space, outsideIndexed, ixPrune, ixTasks, ixProm, ixMsgs, ixResult, ixExpanded >>

\* the path of the root
RootPath == << 0 >>

\* posManager::addWork_action(localPosMgr, path, pid)
IxSearchAddWork ==
  /\ ixSearchPc = "addWork"
  /\ ixTasks' = Append(ixTasks, NewIndexedTask(RootPath))
  /\ ixProm' = Append(ixProm, FALSE)
  /\ ixQueue' = [ ixQueue EXCEPT ![Here] = Append(@, Len(ixTasks) + 1) ]
  /\ ixSearchPc' = "wait"
  /\ UNCHANGED << space, outsideIndexed, ixPrune, ixWorker, ixRunning, ixBound, ixMsgs, ixInc,
                  ixResult, ixSubmitted, ixExpanded >>

\* f.get() returns, stopScheduler_indexed_action is broadcast
IxSearchStop ==
  /\ ixSearchPc = "wait"
  /\ ixProm[RootFuture]
  /\ ixRunning' = [ l \in Localities |-> FALSE ]
  /\ ixSearchPc' = "stopped"
  /\ UNCHANGED << space, outsideIndexed, ixPrune, ixTasks, ixProm, ixQueue, ixWorker, ixBound,
                  ixMsgs, ixInc, ixResult, ixSubmitted, ixExpanded >>

\* the result is read from the global incumbent
IxSearchReturn ==
  /\ ixSearchPc = "stopped"
  /\ ixResult' = [ kind |-> "node", node |-> ixInc.node ]
  /\ ixSearchPc' = "done"
  /\ UNCHANGED << space, outsideIndexed, ixPrune, ixTasks, ixProm, ixQueue, ixWorker, ixRunning,
                  ixBound, ixMsgs, ixInc, ixSubmitted, ixExpanded >>

\* ------------------------------------------------------------------------
\* The indexed scheduler and its position managers
\* ------------------------------------------------------------------------

IxMayGetWork(w) == ixWorker[w].st = "idle" /\ ixRunning[LocOf(w)]

\* a worker runs the work added to its locality's position manager
IxGetWork(w) ==
  /\ IxMayGetWork(w)
  /\ ixQueue[LocOf(w)] # << >>
  /\ LET t == Head(ixQueue[LocOf(w)])
     IN /\ ixTasks' = [ ixTasks EXCEPT ![t] = StartIndexedTask(@) ]
        /\ ixExpanded' = CountExpand(GetStartingNode(ixTasks[t].path))
        /\ ixWorker' = [ ixWorker EXCEPT ![w] = [ st |-> "busy", task |-> t ] ]
  /\ ixQueue' = [ ixQueue EXCEPT ![LocOf(w)] = Tail(@) ]
  /\ UNCHANGED << space, outsideIndexed, ixPrune, ixSearchPc, ixProm, ixRunning, ixBound, ixMsgs,
                  ixInc, ixResult, ixSubmitted >>

\* the tasks registered with a position manager: started, done_action not yet run
Registered(T) == T.st \in { "expand", "setPromise" }

\* a worker without work steals a position from the index of a registered
\* task v: the position is marked as taken there, the victim's index keeps the
\* future of the new promise, the worker runs searchChildTask on the path
IxSteal(w) ==
  /\ IxMayGetWork(w)
  /\ ixQueue[LocOf(w)] = << >>
  /\ \E v \in 1 .. Len(ixTasks) :
       /\ Registered(ixTasks[v])
       /\ \E c \in StealChoices(ixTasks[v].pos) :
            LET new == Len(ixTasks) + 1
                path == StolenPath(ixTasks[v].pos, c[1], c[2])
            IN /\ ixTasks' = Append([ ixTasks EXCEPT ![v].pos = AfterSteal(@, c[1], c[2], new) ],
                                    StartIndexedTask(NewIndexedTask(path)))
               /\ ixProm' = Append(ixProm, FALSE)
               /\ ixExpanded' = CountExpand(GetStartingNode(path))
               /\ ixWorker' = [ ixWorker EXCEPT ![w] = [ st |-> "busy", task |-> new ] ]
  /\ UNCHANGED << space, outsideIndexed, ixPrune, ixSearchPc, ixQueue, ixRunning, ixBound, ixMsgs,
                  ixInc, ixResult, ixSubmitted >>

\* the scheduler has been stopped
IxWorkerExit(w) ==
  /\ ixWorker[w].st = "idle"
  /\ ~ ixRunning[LocOf(w)]
  /\ ixWorker' = [ ixWorker EXCEPT ![w].st = "exited" ]
  /\ UNCHANGED << space, outsideIndexed, ixPrune, ixSearchPc, ixTasks, ixProm, ixQueue, ixRunning,
                  ixBound, ixMsgs, ixInc, ixResult, ixSubmitted, ixExpanded >>


\* ------------------------------------------------------------------------
\* The steps of an indexed task
\* ------------------------------------------------------------------------

IxInFrame(w, pc) ==
  /\ ixWorker[w].st = "busy"
  /\ ixTasks[ixWorker[w].task].st = "expand"
  /\ ixTasks[ixWorker[w].task].frames[Len(ixTasks[ixWorker[w].task].frames)].pc = pc

SetTopFrame(T, f) == [ T EXCEPT !.frames[Len(T.frames)] = f ]

\* while ((nextPos = pos.getNextPosition()) >= 0): the loop ends, or the child
\* of the position is fetched from the generator
IxNextPosition(w) ==
  /\ IxInFrame(w, "next")
  /\ LET t == ixWorker[w].task
         T == ixTasks[t]
         f == T.frames[Len(T.frames)]
         nextPos == NextPosition(T.pos)
     IN ixTasks' = [ ixTasks EXCEPT ![t] =
                       IF nextPos < 0
                       THEN ReturnFromExpand(T)
                       ELSE [ SetTopFrame(T, FetchChild(f, nextPos)) EXCEPT
                                !.pos = AfterGetNextPosition(T.pos) ] ]
  /\ UNCHANGED << space, outsideIndexed, ixPrune, ixSearchPc, ixProm, ixQueue, ixWorker, ixRunning,
                  ixBound, ixMsgs, ixInc, ixResult, ixSubmitted, ixExpanded >>

\* lbnd = localBound_.load(), the bound of c is compared with it: the child is
\* pruned (with PruneLevel the whole level), or it goes on to the incumbent
\* update or to the descent
IxCheckBound(w) ==
  /\ IxInFrame(w, "bound")
  /\ LET t == ixWorker[w].task
         T == ixTasks[t]
         f == T.frames[Len(T.frames)]
         c == FrameChild(f)
         lbnd == ixBound[LocOf(w)]
         ubound == BoundFn(c)
     IN ixTasks' = [ ixTasks EXCEPT ![t] =
                       IF ubound <= lbnd
                       THEN IF ixPrune
                            THEN ReturnFromExpand([ T EXCEPT !.pos = PruneLevelPos(@) ])
                            ELSE SetTopFrame(T, [ f EXCEPT !.lbnd = lbnd, !.i = @ + 1,
                                                           !.pc = "next" ])
                       ELSE SetTopFrame(T, [ f EXCEPT !.lbnd = lbnd,
                                               !.pc = IF Obj(c) > lbnd THEN "update"
                                                      ELSE "pre" ]) ]
  /\ UNCHANGED << space, outsideIndexed, ixPrune, ixSearchPc, ixProm, ixQueue, ixWorker, ixRunning,
                  ixBound, ixMsgs, ixInc, ixResult, ixSubmitted, ixExpanded >>

\* the objective of c is stored into localBound_ as it is
IxUpdateBoundStore(w) ==
  /\ IxInFrame(w, "update")
  /\ LET t == ixWorker[w].task
         T == ixTasks[t]
         f == T.frames[Len(T.frames)]
         c == FrameChild(f)
     IN /\ ixBound' = [ ixBound EXCEPT ![LocOf(w)] = Obj(c) ]
        /\ ixMsgs' = ixMsgs \cup { [ to |-> l, bnd |-> Obj(c) ] : l \in Localities }
        /\ ixInc' = IxUpdateIncumbent(ixInc, c)
        /\ ixSubmitted' = ixSubmitted \cup { c }
        /\ ixTasks' = [ ixTasks EXCEPT ![t] = SetTopFrame(T, [ f EXCEPT !.pc = "pre" ]) ]
  /\ UNCHANGED << space, outsideIndexed, ixPrune, ixSearchPc, ixProm, ixQueue, ixWorker, ixRunning,
                  ixResult, ixExpanded >>

\* the objective of c exceeds the copy of the bound: updateRegistryBound here,
\* the same value broadcast to all localities without waiting, and the
\* incumbent's updateIncumbent_action awaited
IxUpdateBound(w) ==
  /\ IxInFrame(w, "update")
  /\ LET t == ixWorker[w].task
         T == ixTasks[t]
         f == T.frames[Len(T.frames)]
         c == FrameChild(f)
     IN /\ ixBound' = [ ixBound EXCEPT ![LocOf(w)] = UpdateRegistryBound(@, Obj(c)) ]
        /\ ixMsgs' = ixMsgs \cup { [ to |-> l, bnd |-> Obj(c) ] : l \in Localities }
        /\ ixInc' = IxUpdateIncumbent(ixInc, c)
        /\ ixSubmitted' = ixSubmitted \cup { c }
        /\ ixTasks' = [ ixTasks EXCEPT ![t] = SetTopFrame(T, [ f EXCEPT !.pc = "pre" ]) ]
  /\ UNCHANGED << space, outsideIndexed, ixPrune, ixSearchPc, ixProm, ixQueue, ixWorker, ixRunning,
                  ixResult, ixExpanded >>

\* a broadcast updateRegistryBound_act arrives at its locality
IxDeliver ==
  /\ \E m \in ixMsgs :
       /\ ixBound' = [ ixBound EXCEPT ![m.to] = UpdateRegistryBound(@, m.bnd) ]
       /\ ixMsgs' = ixMsgs \ { m }
  /\ UNCHANGED << space, outsideIndexed, ixPrune, ixSearchPc, ixTasks, ixProm, ixQueue, ixWorker,
                  ixRunning, ixInc, ixResult, ixSubmitted, ixExpanded >>

\* the index passed to preExpand
PreExpandIndex(f) == f.i

\* pos.preExpand(i) and the recursive call expand(pos, c)
IxPreExpand(w) ==
  /\ IxInFrame(w, "pre")
  /\ LET t == ixWorker[w].task
         T == ixTasks[t]
         f == T.frames[Len(T.frames)]
         c == FrameChild(f)
     IN /\ ixTasks' = [ ixTasks EXCEPT ![t] =
                          EnterExpand([ SetTopFrame(T, [ f EXCEPT !.pc = "call" ]) EXCEPT
                                          !.pos = PreExpand(@, PreExpandIndex(f)) ], c) ]
        /\ ixExpanded' = CountExpand(c)
  /\ UNCHANGED << space, outsideIndexed, ixPrune, ixSearchPc, ixProm, ixQueue, ixWorker, ixRunning,
                  ixBound, ixMsgs, ixInc, ixResult, ixSubmitted >>

\* after expand: set_value_action on the promise p, then
\* posManager::done_action and tasks_required_sem.signal(): the promise is
\* set, the task is no longer registered, the scheduler may run another task
IxSetPromise(w) ==
  /\ ixWorker[w].st = "busy"
  /\ ixTasks[ixWorker[w].task].st = "setPromise"
  /\ ixProm' = [ ixProm EXCEPT ![ixWorker[w].task] = TRUE ]
  /\ ixTasks' = [ ixTasks EXCEPT ![ixWorker[w].task].st = "wait" ]
  /\ ixWorker' = [ ixWorker EXCEPT ![w] = [ st |-> "idle", task |-> 0 ] ]
  /\ UNCHANGED << space, outsideIndexed, ixPrune, ixSearchPc, ixQueue, ixRunning, ixBound,
                  ixMsgs, ixInc, ixResult, ixSubmitted, ixExpanded >>

\* posIdx->waitFutures() returns: every child future is ready
IxWaitFutures(t) ==
  /\ ixTasks[t].st = "wait"
  /\ \A c \in ixTasks[t].pos.futures : ixProm[c]
  /\ ixTasks' = [ ixTasks EXCEPT ![t].st = "finished" ]
  /\ UNCHANGED << space, outsideIndexed, ixPrune, ixSearchPc, ixProm, ixQueue, ixWorker, ixRunning,
                  ixBound, ixMsgs, ixInc, ixResult, ixSubmitted, ixExpanded >>

\* ------------------------------------------------------------------------
\* Properties of the Indexed skeleton
\* ------------------------------------------------------------------------

\* C2: the completion promise of an Indexed child task is set only after the
\* futures of all tasks stolen from its position index are ready.
C2_PromiseAfterChildFutures ==
  \A t \in 1 .. Len(ixTasks) :
    ixProm[t] => \A c \in ixTasks[t].pos.futures : ixProm[c]

\* the frame holds a position obtained from getNextPosition()
HoldsPosition(f) == f.pc \in { "bound", "update", "pre", "call" }

C6_BoundMonotone ==
  [][\A l \in Localities : ixBound'[l] >= ixBound[l]]_vars

\* an expand is about to update the bound with an objective below the bound
\* its locality holds by now, while a broadcast is still in flight
C6_Witness ==
  /\ \E w \in Workers :
       /\ IxInFrame(w, "update")
       /\ Obj(FrameChild(ixTasks[ixWorker[w].task].frames[
                           Len(ixTasks[ixWorker[w].task].frames)])) < ixBound[LocOf(w)]
  /\ ixMsgs # {}

\* the best objective submitted to the incumbent so far
BestSubmitted == SetMax({ Obj(n) : n \in ixSubmitted })

\* C7: the incumbent's objective never gets worse and is the best objective
\* submitted so far, a candidate of equal objective does not replace the
\* node held, and search returns a node of the best objective ever submitted.
C7_ReturnsBestSubmitted ==
  /\ ixInc.has => Obj(ixInc.node) = BestSubmitted
  /\ ixSearchPc = "done" => Obj(ixResult.node) = BestSubmitted

\* C21: getStartingNode(path) for path = [0, p1, ..., pk] is the node reached
\* from the root by taking child number p_i at level i (a node is the sequence
\* of the child numbers that lead to it), a node of the tree; for path = [0]
\* it is the root.  Every task enters expand on that node.
C21_StartingNodeByPath ==
  /\ GetStartingNode(<< 0 >>) = Root
  /\ \A t \in 1 .. Len(ixTasks) :
       LET ps == SubSeq(ixTasks[t].path, 2, Len(ixTasks[t].path))
       IN /\ ixTasks[t].path[1] = 0
          /\ GetStartingNode(ixTasks[t].path) = ps
          /\ ps \in space.tree
          /\ ixTasks[t].frames # << >> => ixTasks[t].frames[1].n = ps

\* a task made for a path of two levels below the root is inside expand
C21_Witness ==
  \E t \in 1 .. Len(ixTasks) :
    /\ Len(ixTasks[t].path) >= 3
    /\ ixTasks[t].frames # << >>

\* C23: from the broadcast of stopScheduler on, and so when the incumbent is
\* read, no indexed subtree task is queued or still before the end of its
\* expand on any locality; the node search returns has the best objective of
\* the tree (the bound prunes no node that could improve on it).
C23_QuiescentAtStop ==
  /\ ixSearchPc \in { "stopped", "done" } =>
       \A t \in 1 .. Len(ixTasks) : ixTasks[t].st \notin { "queued", "expand" }
  /\ ixSearchPc = "done" =>
       Obj(ixResult.node) = SetMax({ Obj(n) : n \in space.tree })

\* the frames of a task that hold a child fetched for a position
HoldsChild(f) == f.pc \in { "bound", "update", "pre", "call" }

\* C31: in every call of Indexed expand, the child that is bound-checked and
\* expanded for the position k returned by getNextPosition is the k-th child
\* of the node (0-based), also when earlier positions were skipped because
\* they were stolen or pruned; the index handed to preExpand is k, and the
\* recursive call works on that child.
C31_ChildOfPosition ==
  \A t \in 1 .. Len(ixTasks) :
    \A j \in 1 .. Len(ixTasks[t].frames) :
      LET f == ixTasks[t].frames[j]
      IN HoldsChild(f) =>
           /\ f.nextPos \in 0 .. (NumChildren(f.n) - 1)
           /\ FrameChild(f) = Child(f.n, f.nextPos)
           /\ PreExpandIndex(f) = f.nextPos
           /\ f.pc = "call" =>
                /\ ixTasks[t].frames[j + 1].n = Child(f.n, f.nextPos)
                /\ ixTasks[t].pos.path[ixTasks[t].pos.base + j] = f.nextPos

\* the owner is about to expand the child of position 1 or later of a node
\* whose earlier position went to a stealer
C31_Witness ==
  \E t, u \in 1 .. Len(ixTasks) :
    /\ ixTasks[t].st = "expand"
    /\ LET f == ixTasks[t].frames[Len(ixTasks[t].frames)]
       IN /\ f.pc = "pre"
          /\ f.nextPos >= 1
          /\ \E k \in 0 .. (f.nextPos - 1) : ixTasks[u].path = Append(ixTasks[t].pos.path, k)

NextIndexed ==
  \/ IxSearchInit
  \/ IxSearchAddWork
  \/ IxSearchStop
  \/ IxSearchReturn
  \/ \E w \in Workers : IxGetWork(w)
  \/ \E w \in Workers : IxSteal(w)
  \/ \E w \in Workers : IxWorkerExit(w)
  \/ \E w \in Workers : IxNextPosition(w)
  \/ \E w \in Workers : IxCheckBound(w)
  \/ \E w \in Workers : IxUpdateBound(w)
  \/ IxDeliver
  \/ \E w \in Workers : IxPreExpand(w)
  \/ \E w \in Workers : IxSetPromise(w)
  \/ \E t \in 1 .. Len(ixTasks) : IxWaitFutures(t)

SpecIndexed == InitIndexed /\ [][NextIndexed]_vars

\* ------------------------------------------------------------------------
\* The PriorityOrdered policy (Workstealing::Policies::PriorityOrderedPolicy)
\* ------------------------------------------------------------------------

\* threads that call getWork and addwork, spread round-robin over the localities
PoNumThreads == 3

\* tasks handed to addwork are numbered 1..PoMaxTasks
PoMaxTasks == 2

\* the priorities handed to addwork range over 0..PoMaxPriority
PoMaxPriority == 1

PoThreads == 1 .. PoNumThreads
PoLocOf(c) == ((c - 1) % NumLocalities) + 1
PoTasks == 1 .. PoMaxTasks

\* the empty hpx::util::function a default-constructed task is
NoTask == 0

\* The priorityworkqueue component: entries in arrival order.  steal takes an
\* entry of the smallest priority value, the newest one among equals.
PqAddWork(q, priority, task) == Append(q, [ priority |-> priority, task |-> task ])

PqBest(q) ==
  CHOOSE i \in 1 .. Len(q) :
    \A j \in 1 .. Len(q) :
      \/ q[j].priority > q[i].priority
      \/ q[j].priority = q[i].priority /\ j <= i

\* what steal_action returns: the empty function when the queue is empty
PqStealTask(q) == IF q = << >> THEN NoTask ELSE q[PqBest(q)].task

\* the queue steal_action leaves behind
PqStealRest(q) ==
  IF q = << >> THEN q
  ELSE SubSeq(q, 1, PqBest(q) - 1) \o SubSeq(q, PqBest(q) + 1, Len(q))

PoIdle == [ pc |-> "idle", task |-> NoTask, priority |-> 0 ]

InitPriority ==
  /\ space = [ tree |-> TreeC, obj |-> ZeroObj(TreeC), bnd |-> ZeroObj(TreeC) ]
  /\ NoRandomSearch
  /\ NoIndexedSearch
  /\ NoGenerator
  /\ NoMain
  /\ poInit = [ pc |-> "start", globalWorkqueue |-> 0, pending |-> {} ]
  /\ poQueues = << >>
  /\ poPolicy = [ l \in Localities |-> 0 ]
  /\ poMtx = [ l \in Localities |-> FALSE ]
  /\ poThread = [ c \in PoThreads |-> PoIdle ]
  /\ poAdded = [ t \in PoTasks |-> FALSE ]
  /\ poReturned = [ t \in 0 .. PoMaxTasks |-> 0 ]
  /\ poFuture = NoFuture

\* initPolicy: hpx::new_<priorityworkqueue>(find_here()), then the broadcast
\* of setPriorityWorkqueuePolicy_act to all localities is sent
PoInitCreate ==
  /\ poInit.pc = "start"
  /\ poQueues' = Append(poQueues, << >>)
  /\ poInit' = [ pc |-> "broadcast", globalWorkqueue |-> Len(poQueues) + 1,
                 pending |-> Localities ]
  /\ UNCHANGED << outsidePriority, poPolicy, poMtx, poThread, poAdded,
                  poReturned, poFuture >>

\* the variant of setPriorityWorkqueuePolicy that gives the locality a queue of
\* its own
setPrivateWorkqueuePolicy(l, globalWorkqueue) ==
  /\ poQueues' = Append(poQueues, << >>)
  /\ poPolicy' = [ poPolicy EXCEPT ![l] = Len(poQueues) + 1 ]

\* setPriorityWorkqueuePolicy on locality l: local_policy becomes a policy
\* object holding the queue id it was sent
setPriorityWorkqueuePolicy(l, globalWorkqueue) ==
  /\ poPolicy' = [ poPolicy EXCEPT ![l] = globalWorkqueue ]
  /\ UNCHANGED poQueues

\* the broadcast reaches locality l
PoSetPolicy(l) ==
  /\ poInit.pc = "broadcast"
  /\ l \in poInit.pending
  /\ setPriorityWorkqueuePolicy(l, poInit.globalWorkqueue)
  /\ poInit' = [ poInit EXCEPT !.pending = @ \ { l } ]
  /\ UNCHANGED << outsidePriority, poMtx, poThread, poAdded, poReturned, poFuture >>

\* hpx::wait_all on the broadcast: initPolicy returns
PoInitReturn ==
  /\ poInit.pc = "broadcast"
  /\ poInit.pending = {}
  /\ poInit' = [ poInit EXCEPT !.pc = "done" ]
  /\ UNCHANGED << outsidePriority, poQueues, poPolicy, poMtx, poThread,
                  poAdded, poReturned, poFuture >>

\* threads use the policy once initPolicy has returned (search starts the
\* schedulers after Policy::initPolicy)
PoMayCall(c) ==
  /\ poInit.pc = "done"
  /\ poThread[c].pc = "idle"
  /\ ~ poMtx[PoLocOf(c)]

\* a unique_lock that is not released when the call returns
UnlockNever(l) == poMtx

\* the unique_lock on mtx goes out of scope on locality l
Unlock(l) == [ poMtx EXCEPT ![l] = FALSE ]

\* getWork: lock mtx and send steal_action to globalWorkqueue
PoGetWork(c) ==
  /\ PoMayCall(c)
  /\ poMtx' = [ poMtx EXCEPT ![PoLocOf(c)] = TRUE ]
  /\ poThread' = [ poThread EXCEPT ![c].pc = "steal" ]
  /\ UNCHANGED << outsidePriority, poInit, poQueues, poPolicy, poAdded,
                  poReturned, poFuture >>

\* the queue component runs steal_action for thread c
PoStealAction(c) ==
  /\ poThread[c].pc = "steal"
  /\ LET q == poPolicy[PoLocOf(c)] IN
       /\ poThread' = [ poThread EXCEPT ![c].pc = "stolen",
                                         ![c].task = PqStealTask(poQueues[q]) ]
       /\ poQueues' = [ poQueues EXCEPT ![q] = PqStealRest(@) ]
  /\ UNCHANGED << outsidePriority, poInit, poPolicy, poMtx, poAdded,
                  poReturned, poFuture >>

\* getWork hands out whatever steal_action returned
GetWorkReturnsAlways(task) == TRUE

\* getWork returns the task bound to find_here() if (task), nullptr otherwise
GetWorkReturnsTask(task) == task # NoTask

\* getWork returns and unlocks mtx
PoGetWorkReturn(c) ==
  /\ poThread[c].pc = "stolen"
  /\ poReturned' =
       IF GetWorkReturnsTask(poThread[c].task)
       THEN [ poReturned EXCEPT ![poThread[c].task] = @ + 1 ]
       ELSE poReturned
  /\ poThread' = [ poThread EXCEPT ![c] = PoIdle ]
  /\ poMtx' = Unlock(PoLocOf(c))
  /\ UNCHANGED << outsidePriority, poInit, poQueues, poPolicy, poAdded, poFuture >>

\* addwork(priority, task) with a task not added before: lock mtx and send
\* addWork_action to globalWorkqueue
PoAddwork(c, priority) ==
  /\ PoMayCall(c)
  /\ \E t \in PoTasks :
       /\ ~ poAdded[t]
       /\ \A u \in PoTasks : u < t => poAdded[u]
       /\ poAdded' = [ poAdded EXCEPT ![t] = TRUE ]
       /\ poThread' = [ poThread EXCEPT ![c] = [ pc |-> "add", task |-> t,
                                                  priority |-> priority ] ]
  /\ poMtx' = [ poMtx EXCEPT ![PoLocOf(c)] = TRUE ]
  /\ UNCHANGED << outsidePriority, poInit, poQueues, poPolicy, poReturned, poFuture >>

\* the queue component runs addWork_action for thread c
PoAddWorkAction(c) ==
  /\ poThread[c].pc = "add"
  /\ LET q == poPolicy[PoLocOf(c)] IN
       poQueues' = [ poQueues EXCEPT
                       ![q] = PqAddWork(@, poThread[c].priority, poThread[c].task) ]
  /\ poThread' = [ poThread EXCEPT ![c].pc = "added" ]
  /\ UNCHANGED << outsidePriority, poInit, poPolicy, poMtx, poAdded,
                  poReturned, poFuture >>

\* addwork that sends the action with hpx::apply and does not wait for it
AddworkSent(pc) == pc \in { "add", "added" }

\* .get() on the future of addWork_action: the action has run
AddworkDone(pc) == pc = "added"

\* addwork returns and unlocks mtx
PoAddworkReturn(c) ==
  /\ AddworkDone(poThread[c].pc)
  /\ poThread' = [ poThread EXCEPT ![c] = PoIdle ]
  /\ poMtx' = Unlock(PoLocOf(c))
  /\ UNCHANGED << outsidePriority, poInit, poQueues, poPolicy, poAdded,
                  poReturned, poFuture >>

\* what workRemaining_action answers: whether the queue holds a task
PqWorkRemaining(q) == q # << >>

\* workRemaining: lock mtx, send workRemaining_action to globalWorkqueue and
\* return its future; mtx is unlocked on return, the action is still to run.
\* The action only reads the queue, so of all futures handed out the model
\* keeps the latest.
PoWorkRemaining(c) ==
  /\ PoMayCall(c)
  /\ poFuture' = [ st |-> "pending", answer |-> FALSE ]
  /\ poMtx' = Unlock(PoLocOf(c))
  /\ UNCHANGED << outsidePriority, poInit, poQueues, poPolicy, poThread, poAdded,
                  poReturned >>

\* the queue component runs workRemaining_action: the future becomes ready
PoWorkRemainingAction ==
  /\ poFuture.st = "pending"
  /\ poFuture' = [ st |-> "ready",
                   answer |-> PqWorkRemaining(poQueues[poInit.globalWorkqueue]) ]
  /\ UNCHANGED << outsidePriority, poInit, poQueues, poPolicy, poMtx, poThread,
                  poAdded, poReturned >>

\* how often getWork returned task t in the whole cluster
PoReturnCount(t) == poReturned[t]

\* C15: PriorityOrdered policy, any interleaving of getWork and addwork calls
\* on all localities: a task added once is returned by at most one getWork call
\* of the cluster, and getWork returns only tasks that were added.
C15_ReturnedAtMostOnce ==
  \A t \in DOMAIN poReturned :
    /\ PoReturnCount(t) <= 1
    /\ PoReturnCount(t) > 0 => (t \in PoTasks /\ poAdded[t])

\* two threads are inside getWork at once and one task has been returned
C15_Witness ==
  /\ \E c, d \in PoThreads : c # d /\ poThread[c].pc = "steal" /\ poThread[d].pc = "stolen"
  /\ \E t \in PoTasks : PoReturnCount(t) = 1

\* C16: once initPolicy has returned there is exactly one priority work queue
\* and the local policy of every locality refers to it, so what is added on
\* one locality is in the queue every other locality steals from.
C16_OneGlobalQueue ==
  poInit.pc = "done" =>
    /\ Len(poQueues) = 1
    /\ \A l \in Localities : poPolicy[l] = poInit.globalWorkqueue
    /\ \A l, m \in Localities : poPolicy[l] = poPolicy[m]

\* a task that a thread of one locality has added, its addwork still waiting
\* for the reply, has been taken for a getWork caller of another locality
C16_Witness ==
  \E t \in PoTasks : \E c, d \in PoThreads :
    /\ PoLocOf(c) # PoLocOf(d)
    /\ poThread[c].pc = "added" /\ poThread[c].task = t
    /\ poThread[d].pc = "stolen" /\ poThread[d].task = t

\* addwork has been called with task t and has returned
AddworkReturned(t) ==
  /\ poAdded[t]
  /\ \A c \in PoThreads :
       ~ (poThread[c].task = t /\ poThread[c].pc \in { "add", "added" })

\* the entries of the global queue that hold task t
PoQueued(t) ==
  { i \in 1 .. Len(poQueues[poInit.globalWorkqueue]) :
      poQueues[poInit.globalWorkqueue][i].task = t }

\* the getWork callers whose steal_action has taken task t for them
PoTakenFor(t) == { c \in PoThreads : poThread[c].pc = "stolen" /\ poThread[c].task = t }

\* C27: once addwork has returned for a task, the task is stored: it is in
\* the global queue, where workRemaining_action answers true, or it has gone
\* to exactly one getWork caller (taken for it by steal_action, or already
\* returned by its getWork); it is never in neither place nor in two.
C27_StoredWhenAddworkReturns ==
  \A t \in PoTasks :
    AddworkReturned(t) =>
      /\ Cardinality(PoQueued(t)) + Cardinality(PoTakenFor(t)) + PoReturnCount(t) = 1
      /\ PoQueued(t) # {} => PqWorkRemaining(poQueues[poInit.globalWorkqueue])

\* one task has been returned by getWork, another one is in the queue after
\* its addwork returned, and a workRemaining future holds the answer true
C27_Witness ==
  /\ \E t, u \in PoTasks :
       /\ AddworkReturned(t) /\ PoReturnCount(t) = 1
       /\ AddworkReturned(u) /\ PoQueued(u) # {}
  /\ poFuture.st = "ready" /\ poFuture.answer

NextPriority ==
  \/ PoInitCreate
  \/ \E l \in Localities : PoSetPolicy(l)
  \/ PoInitReturn
  \/ \E c \in PoThreads : PoGetWork(c)
  \/ \E c \in PoThreads : PoStealAction(c)
  \/ \E c \in PoThreads : PoGetWorkReturn(c)
  \/ \E c \in PoThreads : \E priority \in 0 .. PoMaxPriority : PoAddwork(c, priority)
  \/ \E c \in PoThreads : PoAddWorkAction(c)
  \/ \E c \in PoThreads : PoAddworkReturn(c)

SpecPriority == InitPriority /\ [][NextPriority]_vars

\* the policy with workRemaining polled as well, by any thread at any time
NextPriorityPoll ==
  \/ PoInitCreate
  \/ \E l \in Localities : PoSetPolicy(l)
  \/ PoInitReturn
  \/ \E c \in PoThreads : PoGetWork(c)
  \/ \E c \in PoThreads : PoStealAction(c)
  \/ \E c \in PoThreads : PoGetWorkReturn(c)
  \/ \E c \in PoThreads : \E priority \in 0 .. PoMaxPriority : PoAddwork(c, priority)
  \/ \E c \in PoThreads : PoAddWorkAction(c)
  \/ \E c \in PoThreads : PoAddworkReturn(c)
  \/ \E c \in PoThreads : PoWorkRemaining(c)
  \/ PoWorkRemainingAction

SpecPriorityPoll == InitPriority /\ [][NextPriorityPoll]_vars

\* what the runtime does for the call in progress on locality l: it runs the
\* action that was sent, or resumes the thread that waits for the reply
PoServe(l) ==
  \E c \in PoThreads :
    /\ PoLocOf(c) = l
    /\ \/ PoStealAction(c)
       \/ PoGetWorkReturn(c)
       \/ PoAddWorkAction(c)
       \/ PoAddworkReturn(c)

\* the runtime keeps serving the calls in progress; nothing is assumed about
\* when threads start a call
SpecPriorityFair ==
  /\ SpecPriority
  /\ \A l \in Localities : WF_vars(PoServe(l))

\* thread c is inside getWork or addwork: it holds mtx of its locality
PoInCall(c) == poThread[c].pc \in { "steal", "stolen", "add", "added" }

McVertices == 4

McVertexSet == 0 .. (McVertices - 1)

\* a graph is its set of edges
McGraphs == SUBSET { e \in SUBSET McVertexSet : Cardinality(e) = 2 }

\* the row of vertex u in the BitGraph: its neighbours
Row(g, u) == { w \in McVertexSet : { u, w } \in g }

\* colour_class_order: the loops' state is p_left, q and colour; acc holds
\* p_order and p_bounds up to position i
RECURSIVE ColourLoop(_, _, _, _, _)
ColourLoop(g, p_left, q, colour, acc) ==
  IF q # {}
  THEN LET v == SetMin(q)
       IN ColourLoop(g, p_left \ { v }, (q \ { v }) \ Row(g, v), colour,
                     Append(acc, [ vertex |-> v, colour |-> colour ]))
  ELSE IF p_left # {}
       THEN ColourLoop(g, p_left, p_left, colour + 1, acc)
       ELSE acc

colour_class_order(g, p) == ColourLoop(g, p, {}, 0, << >>)

\* the root node hpx_main builds: no members, size 0, every vertex a candidate
MCRoot ==
  [ sol |-> [ members |-> << >>, colours |-> 0 ], size |-> 0, remaining |-> McVertexSet ]

\* GenNode(graph, n)
GenNode(g, n) ==
  LET ord == colour_class_order(g, n.remaining)
  IN [ p_order |-> [ i \in 0 .. (Len(ord) - 1) |-> ord[i + 1].vertex ],
       colourClass |-> [ i \in 0 .. (Len(ord) - 1) |-> ord[i + 1].colour ],
       childSol |-> n.sol,
       childBnd |-> n.size + 1,
       p |-> n.remaining,
       numChildren |-> Cardinality(n.remaining),
       v |-> Cardinality(n.remaining) - 1 ]

\* the child made of the vertex at position pos with the candidates cands
MCChild(g, gen, pos, cands) ==
  [ sol |-> [ members |-> Append(gen.childSol.members, gen.p_order[pos]),
              colours |-> gen.colourClass[pos] - 1 ],
    size |-> gen.childBnd,
    remaining |-> cands \cap Row(g, gen.p_order[pos]) ]

\* upperBound(space, n)
upperBound(n) == n.size + n.sol.colours

\* a next() that walks p_order from the first position to the last
GenNodeNextForward(g, gen) ==
  LET pos == gen.numChildren - 1 - gen.v
  IN [ node |-> MCChild(g, gen, pos, gen.p),
       gen |-> [ gen EXCEPT !.p = @ \ { gen.p_order[pos] }, !.v = @ - 1 ] ]

\* GenNode::next: the node returned and the generator afterwards
GenNodeNext(g, gen) ==
  [ node |-> MCChild(g, gen, gen.v, gen.p),
    gen |-> [ gen EXCEPT !.p = @ \ { gen.p_order[gen.v] }, !.v = @ - 1 ] ]

\* nth without the loop that removes the choices left of pos
GenNodeNthKeepLeft(g, gen, n) ==
  [ node |-> MCChild(g, gen, Unsigned(gen.v - n), gen.p), gen |-> gen ]

\* GenNode::nth(n): the node returned and the generator afterwards
GenNodeNth(g, gen, n) ==
  LET pos == Unsigned(gen.v - n)
      cands == gen.p \ { gen.p_order[i] : i \in (pos + 1) .. gen.v }
  IN [ node |-> MCChild(g, gen, pos, cands), gen |-> gen ]

NoProbe == [ active |-> FALSE ]
NoLast == [ kind |-> "none" ]

InitGenNode ==
  /\ space = [ tree |-> TreeC, obj |-> ZeroObj(TreeC), bnd |-> ZeroObj(TreeC) ]
  /\ NoRandomSearch
  /\ NoIndexedSearch
  /\ NoPriorityPolicy
  /\ NoMain
  /\ mcGraph \in McGraphs
  /\ mcGen = GenNode(mcGraph, MCRoot)
  /\ mcProbe = NoProbe
  /\ mcLast = NoLast

\* nth(k) is called with k below the number of children not yet returned
McNth(k) ==
  /\ mcGen.numChildren > 0
  /\ k \in 0 .. mcGen.v
  /\ LET r == GenNodeNth(mcGraph, mcGen, k)
     IN /\ mcGen' = r.gen
        /\ mcProbe' = [ active |-> TRUE, k |-> k, due |-> k + 1, node |-> r.node,
                        p |-> mcGen.p, v |-> mcGen.v ]
  /\ UNCHANGED << outsideGenNode, mcGraph, mcLast >>

\* next() is called while children remain
McNext ==
  /\ mcGen.numChildren > 0
  /\ mcGen.v >= 0
  /\ LET r == GenNodeNext(mcGraph, mcGen)
         caught == mcProbe.active /\ mcProbe.due = 1
     IN /\ mcGen' = r.gen
        /\ mcLast' = IF caught
                     THEN [ kind |-> "foretold", node |-> r.node, k |-> mcProbe.k,
                            expected |-> mcProbe.node ]
                     ELSE [ kind |-> "next", node |-> r.node ]
        /\ mcProbe' = IF mcProbe.active /\ ~ caught
                      THEN [ mcProbe EXCEPT !.due = @ - 1 ]
                      ELSE NoProbe
  /\ UNCHANGED << outsideGenNode, mcGraph >>

\* the search moves into the node next() returned: a generator is made for it
McDescend ==
  /\ mcLast.kind # "none"
  /\ mcGen' = GenNode(mcGraph, mcLast.node)
  /\ mcProbe' = NoProbe
  /\ mcLast' = NoLast
  /\ UNCHANGED << outsideGenNode, mcGraph >>

\* C20: max-clique GenNode, at any point of the iteration: nth(k), for k below
\* the number of children not yet returned, returns the node (members,
\* colours, size, candidates) that the (k+1)-th next() call after it returns,
\* and it leaves p and v of the generator as they were.
C20_NthForetellsNext ==
  /\ mcLast.kind = "foretold" => mcLast.node = mcLast.expected
  /\ (mcProbe.active /\ mcProbe.due = mcProbe.k + 1) =>
       (mcGen.p = mcProbe.p /\ mcGen.v = mcProbe.v)

\* nth(k) with k > 0 was called after a first next(), and the k+1 calls of
\* next() that followed reached a child that still has candidates
C20_Witness ==
  /\ mcLast.kind = "foretold"
  /\ mcLast.k >= 1
  /\ mcLast.node.remaining # {}
  /\ mcGen.v + mcLast.k + 2 < mcGen.numChildren

\* the children that the next() calls still to come on the generator return
McRemaining ==
  { GenNodeNext(mcGraph, [ mcGen EXCEPT !.v = pos ]).node : pos \in 0 .. mcGen.v }

\* C33: max-clique GenNode: colour_class_order gives non-decreasing colour
\* numbers along p_order, and after any next() call every child that a later
\* next() call on the same generator returns has an upperBound (size +
\* colours) that is not above the upperBound of the child just returned; so
\* the siblings dropped after a pruned child have no better bound than it.
C33_BoundsNonIncreasing ==
  /\ \A i, j \in 0 .. (mcGen.numChildren - 1) :
       i <= j => mcGen.colourClass[i] <= mcGen.colourClass[j]
  /\ mcLast.kind # "none" =>
       \A c \in McRemaining : upperBound(c) <= upperBound(mcLast.node)

\* below the root, next() has returned a child and a sibling still to come
\* has a bound that is strictly lower
C33_Witness ==
  /\ mcLast.kind # "none"
  /\ mcGen.childBnd >= 2
  /\ \E c \in McRemaining : upperBound(c) < upperBound(mcLast.node)

NextGenNode ==
  \/ \E k \in 0 .. (McVertices - 1) : McNth(k)
  \/ McNext
  \/ McDescend

SpecGenNode == InitGenNode /\ [][NextGenNode]_vars

\* ------------------------------------------------------------------------
\* The application mains (max-clique and numerical semigroups)
\* ------------------------------------------------------------------------

Applications == { "maxclique", "semigroups" }

\* values of --skeleton: the default "seq", the names the help texts list,
\* "basicrandom", and a name no application knows
SkeletonOptions ==
  { "seq", "depthbounded", "stacksteal", "ordered", "budget", "basicrandom", "bogus" }

\* the branches hpx_main has for skeletonType
Recognised(app, skeleton) ==
  IF app = "maxclique"
  THEN skeleton = "basicrandom"
  ELSE skeleton \in { "budget", "basicrandom" }

\* EXIT_FAILURE
ExitFailure == 1

\* what hpx::finalize() returns
FinalizeResult == 0

\* what hpx_main returns from its else branch
InvalidSkeletonReturn(app) ==
  IF app = "maxclique" THEN ExitFailure ELSE FinalizeResult

\* the search hpx_main starts for a skeleton it knows
SearchOf(app, skeleton, decisionBound) ==
  IF app = "maxclique"
  THEN IF decisionBound # 0 THEN "Random Decision" ELSE "Random Optimisation"
  ELSE IF skeleton = "budget" THEN "Budget Enumeration" ELSE "Random Enumeration"

\* counts.resize(50): the entries of a CountDepths vector
CountsSize == 50

\* the default of --genus
DefaultGenus == 50

\* the largest --genus value of the runs
MaxGenus == 50

\* the --genus values of the semigroups runs: small ones, the last index of
\* counts, the default, and the values from the size of counts upwards
GenusOptions == { 0, 2, CountsSize - 1, DefaultGenus } \cup (CountsSize .. MaxGenus)

\* max-clique has no --genus option
GenusFor(app) == IF app = "semigroups" THEN GenusOptions ELSE { 0 }

\* the deepest genus a semigroups search passes to accumulate (the genus of a
\* node is its depth, and the tree has nodes at every depth): Random tests
\* its depth counter, which is one above the tree depth, against maxDepth
\* after depth++, so it stops below depth maxDepth - 1 when maxDepth >= 2 and
\* nowhere otherwise, where it gets to the first genus past the vector;
\* Budget stops below depth maxDepth
DeepestCounted(skeleton, maxDepth) ==
  IF skeleton = "basicrandom"
  THEN IF maxDepth >= 2 THEN maxDepth - 1 ELSE CountsSize
  ELSE maxDepth

\* an index past the end of counts is undefined behaviour: the access ends
\* the process, or it goes through
CountsAccessOutcomes == { "abort", "proceed" }

\* counts[i] of a vector of CountsSize entries is out of range
CountsOutOfRange(i) == i >= CountsSize

InitMain ==
  /\ space = [ tree |-> TreeC, obj |-> ZeroObj(TreeC), bnd |-> ZeroObj(TreeC) ]
  /\ NoRandomSearch
  /\ NoIndexedSearch
  /\ NoPriorityPolicy
  /\ NoGenerator
  /\ \E app \in Applications, sk \in SkeletonOptions, db \in 0 .. MaxObj,
        sp \in SpawnProbabilities :
       \E g \in GenusFor(app) :
         appMain = [ pc |-> "hpx_main", app |-> app, skeleton |-> sk,
                     decisionBound |-> db, spawnProbability |-> sp, genus |-> g,
                     searches |-> << >>, maxIndex |-> -1, i |-> 0,
                     finalized |-> FALSE, returned |-> 0, exit |-> -1 ]

\* a branch of hpx_main is taken: search(...) runs and returns; the semigroups
\* searches call accumulate, counts[m.genus] += 1, on the nodes they visit
MainSearch ==
  /\ appMain.pc = "hpx_main"
  /\ Recognised(appMain.app, appMain.skeleton)
  /\ \E oc \in CountsAccessOutcomes :
       LET deepest == IF appMain.app = "semigroups"
                      THEN DeepestCounted(appMain.skeleton, appMain.genus)
                      ELSE -1
           undefined == CountsOutOfRange(deepest)
       IN /\ undefined \/ oc = "proceed"
          /\ appMain' = [ appMain EXCEPT
                            !.pc = IF undefined /\ oc = "abort" THEN "crashed" ELSE "report",
                            !.maxIndex = deepest,
                            !.searches = Append(@, SearchOf(appMain.app, appMain.skeleton,
                                                            appMain.decisionBound)) ]
  /\ UNCHANGED outsideMain

\* the else branch: the message, and hpx_main returns
MainInvalid ==
  /\ appMain.pc = "hpx_main"
  /\ ~ Recognised(appMain.app, appMain.skeleton)
  /\ appMain' = [ appMain EXCEPT !.pc = "returned", !.finalized = TRUE,
                                 !.returned = InvalidSkeletonReturn(appMain.app) ]
  /\ UNCHANGED outsideMain

\* the test of the result loop: i <= maxDepth
ReportLoopTest(i, maxDepth) == i <= maxDepth

\* one iteration of the result loop of the semigroups hpx_main: counts[i] is
\* read and printed
MainReportRead ==
  /\ appMain.pc = "report"
  /\ appMain.app = "semigroups"
  /\ ReportLoopTest(appMain.i, appMain.genus)
  /\ \E oc \in CountsAccessOutcomes :
       LET undefined == CountsOutOfRange(appMain.i)
       IN /\ undefined \/ oc = "proceed"
          /\ appMain' = [ appMain EXCEPT
                            !.pc = IF undefined /\ oc = "abort" THEN "crashed" ELSE "report",
                            !.maxIndex = IF appMain.i > @ THEN appMain.i ELSE @,
                            !.i = @ + 1 ]
  /\ UNCHANGED outsideMain

\* the results are printed and hpx_main returns hpx::finalize()
MainReport ==
  /\ appMain.pc = "report"
  /\ appMain.app = "semigroups" => ~ ReportLoopTest(appMain.i, appMain.genus)
  /\ appMain' = [ appMain EXCEPT !.pc = "returned", !.finalized = TRUE,
                                 !.returned = FinalizeResult ]
  /\ UNCHANGED outsideMain

\* main returns what hpx::init returns, the value hpx_main returned
MainExit ==
  /\ appMain.pc = "returned"
  /\ appMain' = [ appMain EXCEPT !.pc = "exited", !.exit = appMain.returned ]
  /\ UNCHANGED outsideMain

\* C22: both application mains treat a --skeleton value they do not know as
\* misconfiguration: no search is started and the process ends with an exit
\* code other than 0.
C22_InvalidSkeletonFails ==
  (appMain.pc = "exited" /\ ~ Recognised(appMain.app, appMain.skeleton)) =>
    (appMain.searches = << >> /\ appMain.exit # 0)

\* C34: semigroups application: every access to a CountDepths counts vector
\* (CountsSize entries) is in range for every accepted --genus value, the
\* default included: the highest index that accumulate and the result loop
\* have used is below CountsSize, and no run is ended by such an access.
C34_CountsAccessInRange ==
  appMain.pc # "none" =>
    /\ appMain.maxIndex < CountsSize
    /\ appMain.pc # "crashed"

NextMain ==
  \/ MainSearch
  \/ MainInvalid
  \/ MainReportRead
  \/ MainReport
  \/ MainExit

SpecMain == InitMain /\ [][NextMain]_vars

====
